---- MODULE Spec2Model ----
(***************************************************************************)
(* Model of the chat relay of server.js: the Socket.IO event handlers      *)
(* (authenticate, joinRoom, message, typing, leaveRoom, disconnect), the   *)
(* three in-memory maps they share (onlineUsers, chatroomUsers,            *)
(* typingUsers), the Socket.IO adapter rooms, and the database calls of    *)
(* database.js the handlers await.                                         *)
(*                                                                         *)
(* Every `await` of a handler is a suspension point: the part of a handler *)
(* between two awaits is one atomic action (Node.js runs it to completion),*)
(* and handlers that are suspended are kept in `tasks`.                    *)
(***************************************************************************)
EXTENDS Integers, Sequences, FiniteSets, Bags, TLC

VARIABLES
    sockets,        \* socket id -> "none" | "open" | "closed"
    socketUser,     \* socket id -> socket.user (NoUser or a user record)
    onlineUsers,    \* Map socketId -> userInfo (absent = NULL)
    chatroomUsers,  \* Map chatroomId -> Set of socketIds, in insertion order
    typingUsers,    \* Map chatroomId -> Map socketId -> userInfo
    rooms,          \* Socket.IO adapter: room -> set of socket ids
    members,        \* table chatroom_members: set of <<chatroom_id, user_id>>
    messages,       \* table messages, in insertion order
    tasks,          \* bag of suspended async handlers
    inbox,          \* socket id -> events the client has received, in order
    nEvents,        \* client events accepted: the used part of the budget MaxEvents
    nDbErrors,      \* number of database calls that were rejected so far
    obs,            \* observer: what the requests so far were (no handler reads it)
    client,         \* the page of one browser: the fields of its ChatRoom object
    reg             \* registration: table users, the registerUser calls, the replies

vars == <<sockets, socketUser, onlineUsers, chatroomUsers, typingUsers, rooms,
          members, messages, tasks, inbox, nEvents, nDbErrors, obs, client,
          reg>>

(***************************************************************************)
(* Bounds and input domains                                                *)
(***************************************************************************)
MaxEvents == 3
MaxTasks == 2
MaxDbErrors == 1
MaxJoinedEvents == 2
MaxGestures == 4
MaxRegistrations == 2

NULL == "null"
Conns == {"s1", "s2"}
UserTable == {"u1", "u2"}
UserIds == UserTable \cup {"u9"}
ChatroomTable == {"r1"}
RoomIds == {"r1", "r2"}
\* A message content is a sequence of characters; Undefined stands for a payload
\* without a content field.
Undefined == <<"undefined">>
\* Message.getByChatroom(chatroomId, 50)
HistoryLimit == 50

Contents == {Undefined, <<>>, <<" ">>, <<" ", "a">>}

\* null, where the code expects a user object
NoUser == [id |-> NULL, nickname |-> <<>>, avatar |-> <<>>]

(***************************************************************************)
(* database.js                                                             *)
(***************************************************************************)
\* A row of table users, as User.findById returns it.
UserRow(id) ==
    [id |-> id, nickname |-> <<"nick", id>>, avatar |-> <<"avatar", id>>]

User_findById(id) == IF id \in UserTable THEN UserRow(id) ELSE NoUser

Chatroom_findById(id) == IF id \in ChatroomTable THEN id ELSE NULL

\* INSERT IGNORE INTO chatroom_members: the foreign keys must resolve, and a
\* duplicate of the unique key (chatroom_id, user_id) is ignored.
Chatroom_addMember(tbl, chatroomId, userId) == tbl \cup {<<chatroomId, userId>>}

\* Chatroom.getMembers: the users that are members of the room.
Chatroom_getMembers(tbl, chatroomId) == {m[2] : m \in {x \in tbl : x[1] = chatroomId}}

\* Message.create: INSERT INTO messages; the row gets the next AUTO_INCREMENT
\* id and created_at = CURRENT_TIMESTAMP, a time in whole seconds. seq is not
\* a column: it records which client event the row comes from.
Message_create(tbl, chatroomId, userId, content, seq, now) ==
    Append(tbl, [id |-> Len(tbl) + 1, chatroom_id |-> chatroomId,
                 user_id |-> userId, content |-> content, seq |-> seq,
                 created_at |-> now])

\* CURRENT_TIMESTAMP at an INSERT: the second of the previous INSERT, or a
\* later one.
CurrentTimestamp(tbl) ==
    IF tbl = <<>> THEN {1}
    ELSE {tbl[Len(tbl)].created_at, tbl[Len(tbl)].created_at + 1}

\* Array.prototype.reverse
Reverse(s) == [i \in 1..Len(s) |-> s[Len(s) + 1 - i]]

\* ORDER BY created_at DESC: the orders in which the server may return the
\* rows. Rows with the same created_at come in any order.
OrderByCreatedAtDesc(rows) ==
    LET n == Len(rows)
        perms == {p \in [1..n -> 1..n] : \A i, j \in 1..n : i # j => p[i] # p[j]}
    IN {[i \in 1..n |-> rows[p[i]]] :
          p \in {q \in perms :
                   \A i \in 1..(n - 1) :
                       rows[q[i]].created_at >= rows[q[i + 1]].created_at}}

\* LIMIT n
Limit(s, n) == IF Len(s) <= n THEN s ELSE SubSeq(s, 1, n)

\* Message.getByChatroom(chatroomId, limit): the arrays the call may resolve
\* to: SELECT ... WHERE chatroom_id = ? ORDER BY created_at DESC LIMIT limit,
\* reversed.
Message_getByChatroom(tbl, chatroomId, limit) ==
    {Reverse(Limit(d, limit)) :
        d \in OrderByCreatedAtDesc(
                SelectSeq(tbl, LAMBDA m : m.chatroom_id = chatroomId))}

\* String.prototype.trim on a sequence of characters.
RECURSIVE TrimLeft(_)
TrimLeft(s) == IF s # <<>> /\ Head(s) = " " THEN TrimLeft(Tail(s)) ELSE s

RECURSIVE TrimRight(_)
TrimRight(s) ==
    IF s # <<>> /\ s[Len(s)] = " " THEN TrimRight(SubSeq(s, 1, Len(s) - 1)) ELSE s

Trim(s) == TrimRight(TrimLeft(s))

\* Mutant of IsBlank: content.length instead of content.trim().length
IsBlankNoTrim(content) == content = Undefined \/ Len(content) = 0

\* !content || content.trim().length === 0
IsBlank(content) == content = Undefined \/ Len(Trim(content)) = 0

(***************************************************************************)
(* JavaScript Map, kept as a sequence of [key, val] in insertion order     *)
(***************************************************************************)
MapHas(m, k) == \E i \in 1..Len(m) : m[i].key = k

MapGet(m, k) == m[CHOOSE i \in 1..Len(m) : m[i].key = k].val

\* Mutant of MapSet: setting an existing key moves the entry to the end
MapSetMoveToEnd(m, k, v) ==
    Append(SelectSeq(m, LAMBDA e : e.key # k), [key |-> k, val |-> v])

MapSet(m, k, v) ==
    IF MapHas(m, k)
    THEN [i \in 1..Len(m) |-> IF m[i].key = k THEN [key |-> k, val |-> v] ELSE m[i]]
    ELSE Append(m, [key |-> k, val |-> v])

MapDelete(m, k) == SelectSeq(m, LAMBDA e : e.key # k)

MapValues(m) == [i \in 1..Len(m) |-> m[i].val]

(***************************************************************************)
(* Socket.IO emits                                                         *)
(***************************************************************************)
\* A packet reaches a client only while its socket is connected.
Deliver(inb, recipients, ev) ==
    [c \in Conns |-> IF c \in recipients /\ sockets[c] = "open"
                     THEN Append(inb[c], ev) ELSE inb[c]]

\* Mutant of SocketEmit: io.emit(ev), to every connected socket
SocketEmitToAll(inb, c, ev) == Deliver(inb, Conns, ev)

\* socket.emit(ev)
SocketEmit(inb, c, ev) == Deliver(inb, {c}, ev)

\* io.to(room).emit(ev)
IoToEmit(inb, rms, r, ev) == Deliver(inb, rms[r], ev)

\* socket.to(room).emit(ev): the room without the socket itself
SocketToEmit(inb, rms, c, r, ev) == Deliver(inb, rms[r] \ {c}, ev)

ErrorEv(code) == [type |-> "error", code |-> code]

(***************************************************************************)
(* Suspended handlers                                                      *)
(***************************************************************************)
\* kind, pc: the handler and the await it is suspended on; user: the
\* handler's `const user = socket.user`; uid, content: the event's payload;
\* seq: for a message handler, the number of the client event that started
\* it; msgId: the id Message.create returned. again is read by no handler:
\* it records that the socket already had what the event asks for when the
\* event arrived: for joinRoom, a place in the room's presence set; for
\* authenticate, a bound identity.
Task(kind, c, r, user, uid, content, seq, pc) ==
    [kind |-> kind, conn |-> c, room |-> r, user |-> user, uid |-> uid,
     content |-> content, seq |-> seq, pc |-> pc, msgId |-> 0, again |-> FALSE]

Pending == BagToSet(tasks)

Spawn(t) == tasks (+) SetToBag({t})

Finish(t) == tasks (-) SetToBag({t})

Resume(t, u) == (tasks (-) SetToBag({t})) (+) SetToBag({u})

\* A client event is accepted: the socket is connected.
Accept(c) ==
    /\ sockets[c] = "open"
    /\ nEvents < MaxEvents
    /\ nEvents' = nEvents + 1

\* The event starts a handler that suspends on a database call.
CanSuspend == BagCardinality(tasks) < MaxTasks

\* chatroomUsers.has(r) ? chatroomUsers.get(r) : the empty set
Presence(r) == IF MapHas(chatroomUsers, r) THEN MapGet(chatroomUsers, r) ELSE {}

(***************************************************************************)
(* The observer. jl[c][r]: "join" after an authenticated joinRoom(c, r)    *)
(* request, "left" after a leaveRoom(c, r) request that followed it,       *)
(* "other" after further leaveRoom requests; nLeft[c][r]: the userLeft     *)
(* emits for c and r since the last joinRoom(c, r) request; hist[c][r]:    *)
(* a messageHistory of r was emitted to c since the last joinRoom(c, r) or *)
(* leaveRoom(c, r) request; last: the client event the last step accepted, *)
(* "none" after any other step.                                            *)
(***************************************************************************)
Request(op, c, r, uid, content, flag) ==
    [op |-> op, conn |-> c, room |-> r, uid |-> uid, content |-> content,
     isTyping |-> flag]

ObsInit ==
    [jl |-> [c \in Conns |-> [r \in RoomIds |-> "none"]],
     nLeft |-> [c \in Conns |-> [r \in RoomIds |-> 0]],
     hist |-> [c \in Conns |-> [r \in RoomIds |-> FALSE]],
     last |-> [op |-> "none", conn |-> NULL, room |-> NULL, uid |-> NULL,
              content |-> <<>>, isTyping |-> FALSE]]

ObsJoin(o, c, r) ==
    [o EXCEPT !.jl[c][r] = "join", !.nLeft[c][r] = 0, !.hist[c][r] = FALSE]

ObsLeave(o, c, r) ==
    [o EXCEPT !.jl[c][r] = IF @ = "join" THEN "left"
                           ELSE IF @ = "left" THEN "other" ELSE @,
              !.nLeft[c][r] = @ + 1,
              !.hist[c][r] = FALSE]

ObsLast(req) == [obs EXCEPT !.last = req]

NoRequest == Request("none", NULL, NULL, NULL, <<>>, FALSE)

ObsResumed == ObsLast(NoRequest)

ObsHistory(o, c, r) == [o EXCEPT !.hist[c][r] = TRUE]

ObsDisconnect(o, c, left) ==
    [o EXCEPT !.nLeft[c] = [r \in RoomIds |-> IF r \in left THEN @[r] + 1 ELSE @[r]]]

(***************************************************************************)
(* The page: class ChatRoom of the front-end script                        *)
(***************************************************************************)
\* The fields the constructor sets, and the page after login: the room list
\* is shown, the message box is empty, no fetch is pending and nothing was
\* emitted. value: messageInput.value; timer: a typingTimeout is pending;
\* view: which of the room list and the chat interface is displayed;
\* fetching: the rooms a joinChatroom call awaits the join request of;
\* emitted: the events the page has emitted on its socket; gestures: the
\* number of user gestures handled.
ClientStart ==
    [currentRoom |-> NULL, isTyping |-> FALSE, timer |-> FALSE, value |-> <<>>,
     view |-> "list", fetching |-> {}, emitted |-> <<>>, gestures |-> 0]

(***************************************************************************)
(* Registration: registerUser of auth.js, behind POST /api/register        *)
(***************************************************************************)
\* A field of the request body, with its JavaScript type. s holds the
\* characters of a string, and the decimal digits of a number.
Str(n) == [t |-> "string", s |-> [i \in 1..n |-> "a"]]
Num(digits) == [t |-> "number", s |-> digits]
Missing == [t |-> "undefined", s |-> <<>>]

Usernames == {Missing, Str(2), Str(3), Str(21), Num(<<"7">>)}
Passwords == {Str(5), Str(6), Num(<<"1", "2", "3", "4", "5", "6">>)}
Nicknames == {Str(1), Str(2), Num(<<"5">>)}

\* !v
Falsy(v) == v.t = "undefined" \/ (v.t = "string" /\ v.s = <<>>)
              \/ (v.t = "number" /\ v.s = <<"0">>)

\* v.length < n and v.length > n: the length of a number is undefined, and a
\* comparison with undefined is false.
LengthBelow(v, n) == v.t = "string" /\ Len(v.s) < n
LengthAbove(v, n) == v.t = "string" /\ Len(v.s) > n

\* The characters MySQL stores in a VARCHAR column for a bound parameter.
Stored(v) == v.s

\* No call was made, the table users is empty. calls: the registerUser calls
\* that are suspended; replies: by number of the request, what POST
\* /api/register answered: "ok" or the message of the error, "pending"
\* before the answer.
RegStart ==
    [users |-> <<>>, calls |-> {},
     replies |-> [i \in 1..MaxRegistrations |-> "none"], n |-> 0]

Init ==
    /\ sockets = [c \in Conns |-> "none"]
    /\ socketUser = [c \in Conns |-> NoUser]
    /\ onlineUsers = <<>>
    /\ chatroomUsers = <<>>
    /\ typingUsers = <<>>
    /\ rooms = [r \in RoomIds |-> {}]
    /\ members = {}
    /\ messages = <<>>
    /\ tasks = EmptyBag
    /\ inbox = [c \in Conns |-> <<>>]
    /\ nEvents = 0
    /\ client = ClientStart
    /\ reg = RegStart
    /\ nDbErrors = 0
    /\ obs = ObsInit

\* io.on('connection'): a new socket, socket.user = null
Connection(c) ==
    /\ sockets[c] = "none"
    /\ sockets' = [sockets EXCEPT ![c] = "open"]
    /\ socketUser' = [socketUser EXCEPT ![c] = NoUser]
    /\ obs' = ObsResumed
    /\ UNCHANGED <<client, reg, onlineUsers, chatroomUsers, typingUsers, rooms, members,
                   messages, tasks, inbox, nEvents, nDbErrors>>

(***************************************************************************)
(* socket.on('authenticate')                                               *)
(***************************************************************************)
\* up to `await User.findById(userData.id)`
Authenticate(c, id) ==
    /\ Accept(c)
    /\ CanSuspend
    /\ tasks' = Spawn([Task("authenticate", c, NULL, NoUser, id, <<>>, 0, "findById")
                       EXCEPT !.again = socketUser[c] # NoUser])
    /\ obs' = ObsLast(Request("authenticate", c, NULL, id, <<>>, FALSE))
    /\ UNCHANGED <<client, reg, sockets, socketUser, onlineUsers, chatroomUsers, typingUsers,
                   rooms, members, messages, inbox, nDbErrors>>

\* Mutant of AuthenticateDone: socket.user is built from the event's userData
\* instead of the row User.findById returned
AuthenticateDoneTrustClient(t) ==
    /\ t \in Pending /\ t.kind = "authenticate" /\ t.pc = "findById"
    /\ tasks' = Finish(t)
    /\ socketUser' = [socketUser EXCEPT ![t.conn] = UserRow(t.uid)]
    /\ onlineUsers' = MapSet(onlineUsers, t.conn, UserRow(t.uid))
    /\ inbox' = SocketEmit(inbox, t.conn, [type |-> "authenticated"])
    /\ obs' = ObsResumed
    /\ UNCHANGED <<client, reg, sockets, chatroomUsers, typingUsers, rooms, members,
                   messages, nEvents, nDbErrors>>

\* after User.findById resolved
AuthenticateDone(t) ==
    /\ t \in Pending /\ t.kind = "authenticate" /\ t.pc = "findById"
    /\ tasks' = Finish(t)
    /\ LET user == User_findById(t.uid) IN
       IF user = NoUser
       THEN /\ inbox' = SocketEmit(inbox, t.conn, ErrorEv("UnknownUser"))
            /\ UNCHANGED <<socketUser, onlineUsers>>
       ELSE /\ socketUser' = [socketUser EXCEPT ![t.conn] = user]
            /\ onlineUsers' = MapSet(onlineUsers, t.conn, user)
            /\ inbox' = SocketEmit(inbox, t.conn, [type |-> "authenticated"])
    /\ obs' = ObsResumed
    /\ UNCHANGED <<client, reg, sockets, chatroomUsers, typingUsers, rooms, members,
                   messages, nEvents, nDbErrors>>

(***************************************************************************)
(* socket.on('joinRoom')                                                   *)
(***************************************************************************)
\* Mutant of JoinRoom: the handler without `if (!socket.user)`
JoinRoomNoIdentityCheck(c, r) ==
    /\ Accept(c)
    /\ CanSuspend
    /\ tasks' = Spawn(Task("joinRoom", c, r, socketUser[c], NULL, <<>>, 0, "findById"))
    /\ obs' = ObsJoin(ObsLast(Request("joinRoom", c, r, NULL, <<>>, FALSE)), c, r)
    /\ UNCHANGED <<client, reg, sockets, socketUser, onlineUsers, chatroomUsers, typingUsers,
                   rooms, members, messages, inbox, nDbErrors>>

\* up to `await Chatroom.findById(chatroomId)`
JoinRoom(c, r) ==
    /\ Accept(c)
    /\ IF socketUser[c] = NoUser
       THEN /\ inbox' = SocketEmit(inbox, c, ErrorEv("NotAuthenticated"))
            /\ obs' = ObsLast(Request("joinRoom", c, r, NULL, <<>>, FALSE))
            /\ UNCHANGED tasks
       ELSE /\ CanSuspend
            /\ tasks' = Spawn([Task("joinRoom", c, r, socketUser[c], NULL, <<>>, 0,
                                    "findById")
                               EXCEPT !.again = c \in Presence(r)])
            /\ obs' = ObsJoin(ObsLast(Request("joinRoom", c, r, NULL, <<>>, FALSE)),
                              c, r)
            /\ UNCHANGED inbox
    /\ UNCHANGED <<client, reg, sockets, socketUser, onlineUsers, chatroomUsers, typingUsers,
                   rooms, members, messages, nDbErrors>>

\* Mutant of JoinRoomFound: the handler without `if (!chatroom)`
JoinRoomFoundNoCheck(t) ==
    /\ t \in Pending /\ t.kind = "joinRoom" /\ t.pc = "findById"
    /\ tasks' = Resume(t, [t EXCEPT !.pc = "addMember"])
    /\ obs' = ObsResumed
    /\ UNCHANGED <<client, reg, sockets, socketUser, onlineUsers, chatroomUsers, typingUsers,
                   rooms, members, messages, inbox, nEvents, nDbErrors>>

\* Chatroom.findById resolved: no such room, or go on to
\* `await Chatroom.addMember(chatroomId, user.id)`
JoinRoomFound(t) ==
    /\ t \in Pending /\ t.kind = "joinRoom" /\ t.pc = "findById"
    /\ IF Chatroom_findById(t.room) = NULL
       THEN /\ inbox' = SocketEmit(inbox, t.conn, ErrorEv("RoomNotFound"))
            /\ tasks' = Finish(t)
       ELSE /\ tasks' = Resume(t, [t EXCEPT !.pc = "addMember"])
            /\ UNCHANGED inbox
    /\ obs' = ObsResumed
    /\ UNCHANGED <<client, reg, sockets, socketUser, onlineUsers, chatroomUsers, typingUsers,
                   rooms, members, messages, nEvents, nDbErrors>>

\* Mutant of JoinRoomMember: the handler without socket.join(room)
JoinRoomMemberNoSocketJoin(t) ==
    /\ t \in Pending /\ t.kind = "joinRoom" /\ t.pc = "addMember"
    /\ members' = Chatroom_addMember(members, t.room, t.user.id)
    /\ chatroomUsers' = MapSet(chatroomUsers, t.room, Presence(t.room) \cup {t.conn})
    /\ tasks' = Resume(t, [t EXCEPT !.pc = "getByChatroom"])
    /\ obs' = ObsResumed
    /\ UNCHANGED <<client, reg, sockets, socketUser, onlineUsers, typingUsers, messages,
                   inbox, nEvents, nDbErrors, rooms>>

\* Chatroom.addMember resolved: socket.join, chatroomUsers.get(id).add(socket.id),
\* then `await Message.getByChatroom(chatroomId, 50)`
JoinRoomMember(t) ==
    /\ t \in Pending /\ t.kind = "joinRoom" /\ t.pc = "addMember"
    /\ members' = Chatroom_addMember(members, t.room, t.user.id)
    /\ rooms' = [rooms EXCEPT ![t.room] = @ \cup {t.conn}]
    /\ chatroomUsers' = MapSet(chatroomUsers, t.room, Presence(t.room) \cup {t.conn})
    /\ tasks' = Resume(t, [t EXCEPT !.pc = "getByChatroom"])
    /\ obs' = ObsResumed
    /\ UNCHANGED <<client, reg, sockets, socketUser, onlineUsers, typingUsers, messages,
                   inbox, nEvents, nDbErrors>>

\* Message.getByChatroom resolved: emit messageHistory, then
\* `await Chatroom.getMembers(chatroomId)`
JoinRoomHistory(t) ==
    /\ t \in Pending /\ t.kind = "joinRoom" /\ t.pc = "getByChatroom"
    /\ \E history \in Message_getByChatroom(messages, t.room, HistoryLimit) :
          inbox' = SocketEmit(inbox, t.conn,
                      [type |-> "messageHistory", room |-> t.room,
                       messages |-> history])
    /\ tasks' = Resume(t, [t EXCEPT !.pc = "getMembers"])
    /\ obs' = ObsHistory(ObsResumed, t.conn, t.room)
    /\ UNCHANGED <<client, reg, sockets, socketUser, onlineUsers, chatroomUsers, typingUsers,
                   rooms, members, messages, nEvents, nDbErrors>>

\* Chatroom.getMembers resolved: emit roomMembers to the socket and userJoined
\* to the others in the room
JoinRoomNotify(t) ==
    /\ t \in Pending /\ t.kind = "joinRoom" /\ t.pc = "getMembers"
    /\ inbox' = SocketToEmit(
                   SocketEmit(inbox, t.conn,
                       [type |-> "roomMembers", room |-> t.room,
                        members |-> Chatroom_getMembers(members, t.room)]),
                   rooms, t.conn, t.room,
                   [type |-> "userJoined", room |-> t.room, by |-> t.conn,
                    user |-> t.user.id])
    /\ tasks' = Finish(t)
    /\ obs' = ObsResumed
    /\ UNCHANGED <<client, reg, sockets, socketUser, onlineUsers, chatroomUsers, typingUsers,
                   rooms, members, messages, nEvents, nDbErrors>>

(***************************************************************************)
(* socket.on('message')                                                    *)
(***************************************************************************)
\* Mutant of Message: the handler without `if (!socket.user)`
MessageNoIdentityCheck(c, r, content) ==
    /\ Accept(c)
    /\ IF IsBlank(content)
       THEN UNCHANGED <<inbox, tasks>>
       ELSE /\ CanSuspend
            /\ tasks' = Spawn(Task("message", c, r, socketUser[c], NULL,
                                   Trim(content), nEvents + 1, "create"))
            /\ UNCHANGED inbox
    /\ obs' = ObsLast(Request("message", c, r, NULL, content, FALSE))
    /\ UNCHANGED <<client, reg, sockets, socketUser, onlineUsers, chatroomUsers, typingUsers,
                   rooms, members, messages, nDbErrors>>

\* up to `await Message.create({chatroom_id, user_id, content: content.trim()})`
Message(c, r, content) ==
    /\ Accept(c)
    /\ IF socketUser[c] = NoUser
       THEN /\ inbox' = SocketEmit(inbox, c, ErrorEv("NotAuthenticated"))
            /\ UNCHANGED tasks
       ELSE IF IsBlank(content)
       THEN UNCHANGED <<inbox, tasks>>
       ELSE /\ CanSuspend
            /\ tasks' = Spawn(Task("message", c, r, socketUser[c], NULL,
                                   Trim(content), nEvents + 1, "create"))
            /\ UNCHANGED inbox
    /\ obs' = ObsLast(Request("message", c, r, NULL, content, FALSE))
    /\ UNCHANGED <<client, reg, sockets, socketUser, onlineUsers, chatroomUsers, typingUsers,
                   rooms, members, messages, nDbErrors>>

\* The database executes the INSERT of Message.create. The pool runs the
\* statements of concurrent handlers on different connections, so the
\* inserts of two suspended handlers execute in either order.
MessageInsert(t) ==
    /\ t \in Pending /\ t.kind = "message" /\ t.pc = "create"
    /\ t.room \in ChatroomTable
    /\ \E now \in CurrentTimestamp(messages) :
          messages' = Message_create(messages, t.room, t.user.id, t.content, t.seq,
                                     now)
    /\ tasks' = Resume(t, [t EXCEPT !.pc = "created", !.msgId = Len(messages) + 1])
    /\ obs' = ObsResumed
    /\ UNCHANGED <<client, reg, sockets, socketUser, onlineUsers, chatroomUsers, typingUsers,
                   rooms, members, inbox, nEvents, nDbErrors>>

\* The INSERT violates the foreign key on chatroom_id: Message.create
\* rejects and the catch block reports to the sender.
MessageRejected(t) ==
    /\ t \in Pending /\ t.kind = "message" /\ t.pc = "create"
    /\ t.room \notin ChatroomTable
    /\ inbox' = SocketEmit(inbox, t.conn, ErrorEv("SendFailed"))
    /\ tasks' = Finish(t)
    /\ obs' = ObsResumed
    /\ UNCHANGED <<client, reg, sockets, socketUser, onlineUsers, chatroomUsers, typingUsers,
                   rooms, members, messages, nEvents, nDbErrors>>

\* Mutant of MessageBroadcast: the message is emitted to the room and, as an
\* echo, to the sender
MessageBroadcastEcho(t) ==
    /\ t \in Pending /\ t.kind = "message" /\ t.pc = "created"
    /\ inbox' = SocketEmit(
                   IoToEmit(inbox, rooms, t.room,
                      [type |-> "message", id |-> t.msgId, userId |-> t.user.id,
                       nickname |-> t.user.nickname, avatar |-> t.user.avatar,
                       content |-> t.content, chatroomId |-> t.room, by |-> t.conn]),
                   t.conn,
                   [type |-> "message", id |-> t.msgId, userId |-> t.user.id,
                    nickname |-> t.user.nickname, avatar |-> t.user.avatar,
                    content |-> t.content, chatroomId |-> t.room, by |-> t.conn])
    /\ tasks' = Finish(t)
    /\ obs' = ObsResumed
    /\ UNCHANGED <<client, reg, sockets, socketUser, onlineUsers, chatroomUsers, typingUsers,
                   rooms, members, messages, nEvents, nDbErrors>>

\* Mutant of MessageBroadcast: messageData is stamped from socket.user as it is
\* at fan-out instead of the `user` the handler captured
MessageBroadcastCurrentUser(t) ==
    /\ t \in Pending /\ t.kind = "message" /\ t.pc = "created"
    /\ inbox' = IoToEmit(inbox, rooms, t.room,
                   [type |-> "message", id |-> t.msgId,
                    userId |-> socketUser[t.conn].id,
                    nickname |-> socketUser[t.conn].nickname,
                    avatar |-> socketUser[t.conn].avatar,
                    content |-> t.content, chatroomId |-> t.room, by |-> t.conn])
    /\ tasks' = Finish(t)
    /\ obs' = ObsResumed
    /\ UNCHANGED <<client, reg, sockets, socketUser, onlineUsers, chatroomUsers, typingUsers,
                   rooms, members, messages, nEvents, nDbErrors>>

\* Mutant of MessageBroadcast: the handler gives up after Message.create when
\* its socket has disconnected meanwhile
MessageBroadcastIfConnected(t) ==
    /\ t \in Pending /\ t.kind = "message" /\ t.pc = "created"
    /\ inbox' = IF sockets[t.conn] = "open"
                 THEN IoToEmit(inbox, rooms, t.room,
                         [type |-> "message", id |-> t.msgId, userId |-> t.user.id,
                          nickname |-> t.user.nickname, avatar |-> t.user.avatar,
                          content |-> t.content, chatroomId |-> t.room,
                          by |-> t.conn])
                 ELSE inbox
    /\ tasks' = Finish(t)
    /\ obs' = ObsResumed
    /\ UNCHANGED <<client, reg, sockets, socketUser, onlineUsers, chatroomUsers, typingUsers,
                   rooms, members, messages, nEvents, nDbErrors>>

\* Message.create resolved: io.to(room).emit('message', messageData)
MessageBroadcast(t) ==
    /\ t \in Pending /\ t.kind = "message" /\ t.pc = "created"
    /\ inbox' = IoToEmit(inbox, rooms, t.room,
                   [type |-> "message", id |-> t.msgId, userId |-> t.user.id,
                    nickname |-> t.user.nickname, avatar |-> t.user.avatar,
                    content |-> t.content, chatroomId |-> t.room, by |-> t.conn])
    /\ tasks' = Finish(t)
    /\ obs' = ObsResumed
    /\ UNCHANGED <<client, reg, sockets, socketUser, onlineUsers, chatroomUsers, typingUsers,
                   rooms, members, messages, nEvents, nDbErrors>>

(***************************************************************************)
(* socket.on('typing')                                                     *)
(***************************************************************************)
\* Mutant of Typing: the handler without `if (!socket.user) return`
TypingNoIdentityCheck(c, r, isTyping) ==
    /\ Accept(c)
    /\ LET m == IF MapHas(typingUsers, r) THEN typingUsers
                ELSE MapSet(typingUsers, r, <<>>)
           roomTypingUsers ==
                IF isTyping
                THEN MapSet(MapGet(m, r), c,
                            [id |-> socketUser[c].id,
                             nickname |-> socketUser[c].nickname])
                ELSE MapDelete(MapGet(m, r), c)
       IN /\ typingUsers' = MapSet(m, r, roomTypingUsers)
          /\ inbox' = IoToEmit(inbox, rooms, r,
                         [type |-> "typingUsers", chatroomId |-> r, by |-> c,
                          typingUsers |-> MapValues(roomTypingUsers)])
    /\ obs' = ObsLast(Request("typing", c, r, NULL, <<>>, isTyping))
    /\ UNCHANGED <<client, reg, sockets, socketUser, onlineUsers, chatroomUsers, rooms,
                   members, messages, tasks, nDbErrors>>

Typing(c, r, isTyping) ==
    /\ Accept(c)
    /\ IF socketUser[c] = NoUser
       THEN UNCHANGED <<typingUsers, inbox>>
       ELSE LET m == IF MapHas(typingUsers, r) THEN typingUsers
                     ELSE MapSet(typingUsers, r, <<>>)
                roomTypingUsers ==
                     IF isTyping
                     THEN MapSet(MapGet(m, r), c,
                                 [id |-> socketUser[c].id,
                                  nickname |-> socketUser[c].nickname])
                     ELSE MapDelete(MapGet(m, r), c)
            IN /\ typingUsers' = MapSet(m, r, roomTypingUsers)
               /\ inbox' = IoToEmit(inbox, rooms, r,
                              [type |-> "typingUsers", chatroomId |-> r, by |-> c,
                               typingUsers |-> MapValues(roomTypingUsers)])
    /\ obs' = ObsLast(Request("typing", c, r, NULL, <<>>, isTyping))
    /\ UNCHANGED <<client, reg, sockets, socketUser, onlineUsers, chatroomUsers, rooms,
                   members, messages, tasks, nDbErrors>>

(***************************************************************************)
(* socket.on('leaveRoom')                                                  *)
(***************************************************************************)
\* Mutant of LeaveRoom: the presence set is cleared of every socket of the
\* leaving user instead of the leaving socket
LeaveRoomByUser(c, r) ==
    /\ Accept(c)
    /\ IF socketUser[c] = NoUser
       THEN /\ obs' = ObsLast(Request("leaveRoom", c, r, NULL, <<>>, FALSE))
            /\ UNCHANGED <<rooms, chatroomUsers, inbox>>
       ELSE /\ rooms' = [rooms EXCEPT ![r] = @ \ {c}]
            /\ chatroomUsers' =
                 IF MapHas(chatroomUsers, r)
                 THEN MapSet(chatroomUsers, r,
                             {d \in MapGet(chatroomUsers, r) :
                                 socketUser[d].id # socketUser[c].id})
                 ELSE chatroomUsers
            /\ inbox' = SocketToEmit(inbox, rooms', c, r,
                           [type |-> "userLeft", room |-> r, by |-> c,
                            user |-> socketUser[c].id])
            /\ obs' = ObsLeave(ObsLast(Request("leaveRoom", c, r, NULL, <<>>, FALSE)),
                               c, r)
    /\ UNCHANGED <<client, reg, sockets, socketUser, onlineUsers, typingUsers, members,
                   messages, tasks, nDbErrors>>

LeaveRoom(c, r) ==
    /\ Accept(c)
    /\ IF socketUser[c] = NoUser
       THEN /\ obs' = ObsLast(Request("leaveRoom", c, r, NULL, <<>>, FALSE))
            /\ UNCHANGED <<rooms, chatroomUsers, inbox>>
       ELSE /\ rooms' = [rooms EXCEPT ![r] = @ \ {c}]
            /\ chatroomUsers' =
                 IF MapHas(chatroomUsers, r)
                 THEN MapSet(chatroomUsers, r, MapGet(chatroomUsers, r) \ {c})
                 ELSE chatroomUsers
            /\ inbox' = SocketToEmit(inbox, rooms', c, r,
                           [type |-> "userLeft", room |-> r, by |-> c,
                            user |-> socketUser[c].id])
            /\ obs' = ObsLeave(ObsLast(Request("leaveRoom", c, r, NULL, <<>>, FALSE)),
                               c, r)
    /\ UNCHANGED <<client, reg, sockets, socketUser, onlineUsers, typingUsers, members,
                   messages, tasks, nDbErrors>>

(***************************************************************************)
(* socket.on('disconnect')                                                 *)
(***************************************************************************)
\* The loop body of the disconnect handler for the i-th entry of
\* chatroomUsers, applied to the state st = [cu, tu, inb].
DisconnectRoom(st, c, rms, i) ==
    LET r == st.cu[i].key IN
    IF c \notin st.cu[i].val THEN st
    ELSE LET cu == MapSet(st.cu, r, st.cu[i].val \ {c})
             hasTyping == MapHas(st.tu, r)
             list == IF hasTyping THEN MapDelete(MapGet(st.tu, r), c) ELSE <<>>
             tu == IF hasTyping THEN MapSet(st.tu, r, list) ELSE st.tu
             inb1 == IF hasTyping
                     THEN SocketToEmit(st.inb, rms, c, r,
                             [type |-> "typingUsers", chatroomId |-> r, by |-> c,
                              typingUsers |-> MapValues(list)])
                     ELSE st.inb
             inb2 == SocketToEmit(inb1, rms, c, r,
                        [type |-> "userLeft", room |-> r, by |-> c,
                         user |-> socketUser[c].id])
         IN [cu |-> cu, tu |-> tu, inb |-> inb2]

\* for (const [chatroomId, socketIds] of chatroomUsers.entries()) { ... }
RECURSIVE DisconnectLoop(_, _, _, _)
DisconnectLoop(st, c, rms, i) ==
    IF i > Len(st.cu) THEN st
    ELSE DisconnectLoop(DisconnectRoom(st, c, rms, i), c, rms, i + 1)

\* The transport closes: Socket.IO takes the socket out of every adapter room
\* and marks it disconnected, then runs the 'disconnect' handler.
Disconnect(c) ==
    /\ sockets[c] = "open"
    /\ sockets' = [sockets EXCEPT ![c] = "closed"]
    /\ rooms' = [r \in RoomIds |-> rooms[r] \ {c}]
    /\ LET st == IF socketUser[c] # NoUser
                 THEN DisconnectLoop([cu |-> chatroomUsers, tu |-> typingUsers,
                                      inb |-> inbox], c, rooms', 1)
                 ELSE [cu |-> chatroomUsers, tu |-> typingUsers, inb |-> inbox]
       IN /\ chatroomUsers' = st.cu
          /\ typingUsers' = st.tu
          /\ inbox' = st.inb
    /\ onlineUsers' = MapDelete(onlineUsers, c)
    /\ obs' = ObsDisconnect(ObsResumed,
                            c, IF socketUser[c] # NoUser
                               THEN {r \in RoomIds : c \in Presence(r)} ELSE {})
    /\ UNCHANGED <<client, reg, socketUser, members, messages, tasks, nEvents, nDbErrors>>

(***************************************************************************)
(* A database call of a suspended handler rejects (connection lost, query  *)
(* timeout): the handler's catch block reports to its socket.              *)
(***************************************************************************)
CatchCode(kind) ==
    CASE kind = "authenticate" -> "AuthFailed"
      [] kind = "joinRoom" -> "JoinFailed"
      [] kind = "message" -> "SendFailed"

DbError(t) ==
    /\ t \in Pending
    /\ t.pc # "created"
    /\ nDbErrors < MaxDbErrors
    /\ nDbErrors' = nDbErrors + 1
    /\ inbox' = SocketEmit(inbox, t.conn, ErrorEv(CatchCode(t.kind)))
    /\ tasks' = Finish(t)
    /\ obs' = ObsResumed
    /\ UNCHANGED <<client, reg, sockets, socketUser, onlineUsers, chatroomUsers, typingUsers,
                   rooms, members, messages, nEvents>>

Next ==
    \/ \E c \in Conns : Connection(c)
    \/ \E c \in Conns, id \in UserIds : Authenticate(c, id)
    \/ \E t \in Pending : AuthenticateDone(t)
    \/ \E c \in Conns, r \in RoomIds : JoinRoom(c, r)
    \/ \E t \in Pending : JoinRoomFound(t)
    \/ \E t \in Pending : JoinRoomMember(t)
    \/ \E t \in Pending : JoinRoomHistory(t)
    \/ \E t \in Pending : JoinRoomNotify(t)
    \/ \E c \in Conns, r \in RoomIds, content \in Contents : Message(c, r, content)
    \/ \E t \in Pending : MessageInsert(t)
    \/ \E t \in Pending : MessageRejected(t)
    \/ \E t \in Pending : MessageBroadcast(t)
    \/ \E c \in Conns, r \in RoomIds, isTyping \in BOOLEAN : Typing(c, r, isTyping)
    \/ \E c \in Conns, r \in RoomIds : LeaveRoom(c, r)
    \/ \E c \in Conns : Disconnect(c)
    \/ \E t \in Pending : DbError(t)

Spec == Init /\ [][Next]_vars

(***************************************************************************)
(* Scheduling: a database call that was issued resolves, and the event     *)
(* loop then runs the handler that awaits it up to its next await. Nothing *)
(* makes a client send an event, connect or disconnect.                    *)
(***************************************************************************)
HandlerStep ==
    \E t \in Pending :
        \/ AuthenticateDone(t)
        \/ JoinRoomFound(t) \/ JoinRoomMember(t) \/ JoinRoomHistory(t)
        \/ JoinRoomNotify(t)
        \/ MessageInsert(t) \/ MessageRejected(t) \/ MessageBroadcast(t)

FairSpec == Spec /\ WF_vars(HandlerStep)

(***************************************************************************)
(* A second starting point: the server after sockets s1 and s2 connected,  *)
(* authenticated as u1 and u2 and joined room r1, s1 first, every handler  *)
(* run to its end. Those events used up a part of the budget MaxEvents:    *)
(* a behaviour that starts here has MaxJoinedEvents events left.           *)
(***************************************************************************)
JoinedInit ==
    /\ sockets = [c \in Conns |-> "open"]
    /\ socketUser = [c \in Conns |-> UserRow(IF c = "s1" THEN "u1" ELSE "u2")]
    /\ onlineUsers = <<[key |-> "s1", val |-> UserRow("u1")],
                       [key |-> "s2", val |-> UserRow("u2")]>>
    /\ chatroomUsers = <<[key |-> "r1", val |-> {"s1", "s2"}]>>
    /\ typingUsers = <<>>
    /\ rooms = [r \in RoomIds |-> IF r = "r1" THEN {"s1", "s2"} ELSE {}]
    /\ members = {<<"r1", "u1">>, <<"r1", "u2">>}
    /\ messages = <<>>
    /\ tasks = EmptyBag
    /\ inbox = [c \in Conns |->
                   IF c = "s1"
                   THEN << [type |-> "authenticated"],
                           [type |-> "messageHistory", room |-> "r1",
                            messages |-> <<>>],
                           [type |-> "roomMembers", room |-> "r1",
                            members |-> {"u1"}],
                           [type |-> "userJoined", room |-> "r1", by |-> "s2",
                            user |-> "u2"] >>
                   ELSE << [type |-> "authenticated"],
                           [type |-> "messageHistory", room |-> "r1",
                            messages |-> <<>>],
                           [type |-> "roomMembers", room |-> "r1",
                            members |-> {"u1", "u2"}] >>]
    /\ nEvents = MaxEvents - MaxJoinedEvents
    /\ client = ClientStart
    /\ reg = RegStart
    /\ nDbErrors = 0
    /\ obs = [ObsInit EXCEPT
                 !.jl = [c \in Conns |->
                           [r \in RoomIds |-> IF r = "r1" THEN "join" ELSE "none"]],
                 !.hist = [c \in Conns |-> [r \in RoomIds |-> r = "r1"]]]

(***************************************************************************)
(* Every socket is connected in JoinedInit and a closed socket never       *)
(* reconnects (a new connection is a new socket.id), so that Connection    *)
(* is never enabled after it: the steps from there are Next's others.      *)
(***************************************************************************)
JoinedNext ==
    \/ \E c \in Conns, id \in UserIds : Authenticate(c, id)
    \/ \E t \in Pending : AuthenticateDone(t)
    \/ \E c \in Conns, r \in RoomIds : JoinRoom(c, r)
    \/ \E t \in Pending : JoinRoomFound(t)
    \/ \E t \in Pending : JoinRoomMember(t)
    \/ \E t \in Pending : JoinRoomHistory(t)
    \/ \E t \in Pending : JoinRoomNotify(t)
    \/ \E c \in Conns, r \in RoomIds, content \in Contents : Message(c, r, content)
    \/ \E t \in Pending : MessageInsert(t)
    \/ \E t \in Pending : MessageRejected(t)
    \/ \E t \in Pending : MessageBroadcast(t)
    \/ \E c \in Conns, r \in RoomIds, isTyping \in BOOLEAN : Typing(c, r, isTyping)
    \/ \E c \in Conns, r \in RoomIds : LeaveRoom(c, r)
    \/ \E c \in Conns : Disconnect(c)
    \/ \E t \in Pending : DbError(t)

JoinedSpec == JoinedInit /\ [][JoinedNext]_vars

(***************************************************************************)
(* A third starting point: JoinedInit after s2 sent typing with            *)
(* isTyping = true for room r1. s2 has an entry in the typing map of r1    *)
(* and both sockets received the typingUsers event.                        *)
(***************************************************************************)
TypingInit ==
    LET typist == [id |-> UserRow("u2").id, nickname |-> UserRow("u2").nickname]
        typing == [type |-> "typingUsers", chatroomId |-> "r1", by |-> "s2",
                   typingUsers |-> <<typist>>]
    IN
    /\ sockets = [c \in Conns |-> "open"]
    /\ socketUser = [c \in Conns |-> UserRow(IF c = "s1" THEN "u1" ELSE "u2")]
    /\ onlineUsers = <<[key |-> "s1", val |-> UserRow("u1")],
                       [key |-> "s2", val |-> UserRow("u2")]>>
    /\ chatroomUsers = <<[key |-> "r1", val |-> {"s1", "s2"}]>>
    /\ typingUsers = <<[key |-> "r1", val |-> <<[key |-> "s2", val |-> typist]>>]>>
    /\ rooms = [r \in RoomIds |-> IF r = "r1" THEN {"s1", "s2"} ELSE {}]
    /\ members = {<<"r1", "u1">>, <<"r1", "u2">>}
    /\ messages = <<>>
    /\ tasks = EmptyBag
    /\ inbox = [c \in Conns |->
                   IF c = "s1"
                   THEN << [type |-> "authenticated"],
                           [type |-> "messageHistory", room |-> "r1",
                            messages |-> <<>>],
                           [type |-> "roomMembers", room |-> "r1",
                            members |-> {"u1"}],
                           [type |-> "userJoined", room |-> "r1", by |-> "s2",
                            user |-> "u2"],
                           typing >>
                   ELSE << [type |-> "authenticated"],
                           [type |-> "messageHistory", room |-> "r1",
                            messages |-> <<>>],
                           [type |-> "roomMembers", room |-> "r1",
                            members |-> {"u1", "u2"}],
                           typing >>]
    /\ nEvents = MaxEvents - MaxJoinedEvents
    /\ client = ClientStart
    /\ reg = RegStart
    /\ nDbErrors = 0
    /\ obs = [ObsInit EXCEPT
                 !.jl = [c \in Conns |->
                           [r \in RoomIds |-> IF r = "r1" THEN "join" ELSE "none"]],
                 !.hist = [c \in Conns |-> [r \in RoomIds |-> r = "r1"]],
                 !.last = Request("typing", "s2", "r1", NULL, <<>>, TRUE)]

TypingSpec == TypingInit /\ [][JoinedNext]_vars

(***************************************************************************)
(* A fourth starting point: JoinedInit after s1 sent the message "a" to    *)
(* room r1 and the handler ran to its end. The row is in the table and     *)
(* both sockets received the message event.                                *)
(***************************************************************************)
ChattedInit ==
    LET first == [type |-> "message", id |-> 1, userId |-> "u1",
                  nickname |-> UserRow("u1").nickname,
                  avatar |-> UserRow("u1").avatar,
                  content |-> <<"a">>, chatroomId |-> "r1", by |-> "s1"]
    IN
    /\ sockets = [c \in Conns |-> "open"]
    /\ socketUser = [c \in Conns |-> UserRow(IF c = "s1" THEN "u1" ELSE "u2")]
    /\ onlineUsers = <<[key |-> "s1", val |-> UserRow("u1")],
                       [key |-> "s2", val |-> UserRow("u2")]>>
    /\ chatroomUsers = <<[key |-> "r1", val |-> {"s1", "s2"}]>>
    /\ typingUsers = <<>>
    /\ rooms = [r \in RoomIds |-> IF r = "r1" THEN {"s1", "s2"} ELSE {}]
    /\ members = {<<"r1", "u1">>, <<"r1", "u2">>}
    /\ messages = Message_create(<<>>, "r1", "u1", <<"a">>, 1, 1)
    /\ tasks = EmptyBag
    /\ inbox = [c \in Conns |->
                   IF c = "s1"
                   THEN << [type |-> "authenticated"],
                           [type |-> "messageHistory", room |-> "r1",
                            messages |-> <<>>],
                           [type |-> "roomMembers", room |-> "r1",
                            members |-> {"u1"}],
                           [type |-> "userJoined", room |-> "r1", by |-> "s2",
                            user |-> "u2"],
                           first >>
                   ELSE << [type |-> "authenticated"],
                           [type |-> "messageHistory", room |-> "r1",
                            messages |-> <<>>],
                           [type |-> "roomMembers", room |-> "r1",
                            members |-> {"u1", "u2"}],
                           first >>]
    /\ nEvents = MaxEvents - MaxJoinedEvents
    /\ client = ClientStart
    /\ reg = RegStart
    /\ nDbErrors = 0
    /\ obs = [ObsInit EXCEPT
                 !.jl = [c \in Conns |->
                           [r \in RoomIds |-> IF r = "r1" THEN "join" ELSE "none"]],
                 !.hist = [c \in Conns |-> [r \in RoomIds |-> r = "r1"]]]

ChattedSpec == ChattedInit /\ [][JoinedNext]_vars

(***************************************************************************)
(* A fifth starting point, one user on two devices: sockets s1 and s2      *)
(* connected, both authenticated as u1 and joined room r1, s1 first, every *)
(* handler run to its end.                                                 *)
(***************************************************************************)
SameUserInit ==
    /\ sockets = [c \in Conns |-> "open"]
    /\ socketUser = [c \in Conns |-> UserRow("u1")]
    /\ onlineUsers = <<[key |-> "s1", val |-> UserRow("u1")],
                       [key |-> "s2", val |-> UserRow("u1")]>>
    /\ chatroomUsers = <<[key |-> "r1", val |-> {"s1", "s2"}]>>
    /\ typingUsers = <<>>
    /\ rooms = [r \in RoomIds |-> IF r = "r1" THEN {"s1", "s2"} ELSE {}]
    /\ members = {<<"r1", "u1">>}
    /\ messages = <<>>
    /\ tasks = EmptyBag
    /\ inbox = [c \in Conns |->
                   IF c = "s1"
                   THEN << [type |-> "authenticated"],
                           [type |-> "messageHistory", room |-> "r1",
                            messages |-> <<>>],
                           [type |-> "roomMembers", room |-> "r1",
                            members |-> {"u1"}],
                           [type |-> "userJoined", room |-> "r1", by |-> "s2",
                            user |-> "u1"] >>
                   ELSE << [type |-> "authenticated"],
                           [type |-> "messageHistory", room |-> "r1",
                            messages |-> <<>>],
                           [type |-> "roomMembers", room |-> "r1",
                            members |-> {"u1"}] >>]
    /\ nEvents = MaxEvents - MaxJoinedEvents
    /\ client = ClientStart
    /\ reg = RegStart
    /\ nDbErrors = 0
    /\ obs = [ObsInit EXCEPT
                 !.jl = [c \in Conns |->
                           [r \in RoomIds |-> IF r = "r1" THEN "join" ELSE "none"]],
                 !.hist = [c \in Conns |-> [r \in RoomIds |-> r = "r1"]]]

SameUserSpec == SameUserInit /\ [][JoinedNext]_vars

(***************************************************************************)
(* The page: the handlers of class ChatRoom that read or write isTyping,   *)
(* typingTimeout and currentRoom. A user gesture is a click or a key in    *)
(* the view that is displayed; the timer and the response of a fetch come  *)
(* by themselves. The server's variables are not touched: socket.emit is   *)
(* recorded in client.emitted.                                             *)
(***************************************************************************)
svars == <<sockets, socketUser, onlineUsers, chatroomUsers, typingUsers, rooms,
           members, messages, tasks, inbox, nEvents, nDbErrors, obs>>

\* What the user may leave in the message box.
Values == {<<>>, <<" ">>, <<"a">>}

\* this.socket.emit(type, {chatroomId, isTyping})
Emit(cl, type, room, flag) ==
    [cl EXCEPT !.emitted = Append(@, [type |-> type, room |-> room,
                                      isTyping |-> flag])]

Gesture(cl) == [cl EXCEPT !.gestures = @ + 1]

\* handleTyping()
HandleTyping(cl) ==
    IF cl.currentRoom = NULL THEN cl
    ELSE LET started == IF ~cl.isTyping
                        THEN Emit([cl EXCEPT !.isTyping = TRUE], "typing",
                                  cl.currentRoom, TRUE)
                        ELSE cl
         IN [started EXCEPT !.timer = TRUE]

\* stopTyping()
StopTyping(cl) ==
    LET stopped == IF cl.isTyping /\ cl.currentRoom # NULL
                   THEN Emit([cl EXCEPT !.isTyping = FALSE], "typing",
                             cl.currentRoom, FALSE)
                   ELSE cl
    IN [stopped EXCEPT !.timer = FALSE]

\* showChatroomList()
ShowChatroomList(cl) ==
    LET left == IF cl.currentRoom # NULL
                THEN [Emit(cl, "leaveRoom", cl.currentRoom, FALSE)
                        EXCEPT !.currentRoom = NULL]
                ELSE cl
    IN [left EXCEPT !.view = "list"]

\* messageInput 'input': the user edits the message box
Input(v) ==
    /\ client.view = "chat" /\ client.gestures < MaxGestures
    /\ client' = HandleTyping(Gesture([client EXCEPT !.value = v]))
    /\ UNCHANGED <<svars, reg>>

\* setTimeout(() => this.stopTyping(), 3000) fires
TypingTimeout ==
    /\ client.timer
    /\ client' = StopTyping(client)
    /\ UNCHANGED <<svars, reg>>

\* sendButton 'click', or Enter in the message box: sendMessage()
SendMessage ==
    /\ client.view = "chat" /\ client.gestures < MaxGestures
    /\ client' =
          IF Trim(client.value) = <<>> \/ client.currentRoom = NULL
          THEN Gesture(client)
          ELSE StopTyping([Emit(Gesture(client), "message", client.currentRoom,
                                FALSE)
                             EXCEPT !.value = <<>>])
    /\ UNCHANGED <<svars, reg>>

\* backToListBtn 'click'
BackToList ==
    /\ client.view = "chat" /\ client.gestures < MaxGestures
    /\ client' = ShowChatroomList(Gesture(client))
    /\ UNCHANGED <<svars, reg>>

\* leaveRoomBtn 'click': leaveCurrentRoom()
LeaveCurrentRoom ==
    /\ client.view = "chat" /\ client.gestures < MaxGestures
    /\ client' =
          IF client.currentRoom # NULL
          THEN ShowChatroomList(
                  [Emit(Gesture(client), "leaveRoom", client.currentRoom, FALSE)
                     EXCEPT !.currentRoom = NULL])
          ELSE Gesture(client)
    /\ UNCHANGED <<svars, reg>>

\* a click on a room of the list: joinChatroom(room) up to
\* `await fetch('/api/chatrooms/:id/join')`
JoinChatroom(room) ==
    /\ client.view = "list" /\ client.gestures < MaxGestures
    /\ room \notin client.fetching
    /\ client' = [Gesture(client) EXCEPT !.fetching = @ \cup {room}]
    /\ UNCHANGED <<svars, reg>>

\* the fetch resolved with response.ok: currentRoom = room,
\* showChatInterface(), emit joinRoom
JoinChatroomOk(room) ==
    /\ room \in client.fetching
    /\ client' = Emit([client EXCEPT !.fetching = @ \ {room},
                                      !.currentRoom = room,
                                      !.view = "chat"],
                       "joinRoom", room, FALSE)
    /\ UNCHANGED <<svars, reg>>

\* the fetch rejected or resolved without response.ok: alert
JoinChatroomFailed(room) ==
    /\ room \in client.fetching
    /\ client' = [client EXCEPT !.fetching = @ \ {room}]
    /\ UNCHANGED <<svars, reg>>

ClientNext ==
    \/ \E v \in Values : Input(v)
    \/ TypingTimeout
    \/ SendMessage
    \/ BackToList
    \/ LeaveCurrentRoom
    \/ \E room \in RoomIds : JoinChatroom(room)
    \/ \E room \in RoomIds : JoinChatroomOk(room)
    \/ \E room \in RoomIds : JoinChatroomFailed(room)

ClientSpec == Init /\ [][ClientNext]_vars

\* Scheduling: a timer that is pending fires, and a fetch that was issued
\* gets its response. Nothing makes the user act.
ClientFairSpec ==
    /\ ClientSpec
    /\ WF_vars(TypingTimeout)
    /\ WF_vars(\E room \in RoomIds : JoinChatroomOk(room) \/ JoinChatroomFailed(room))

(***************************************************************************)
(* POST /api/register: registerUser. The call suspends on                  *)
(* User.findByUsername, on bcrypt.hash and on User.create; bcrypt.hash     *)
(* touches no shared state and is taken together with the step before it.  *)
(***************************************************************************)
\* User.findByUsername: SELECT * FROM users WHERE username = ?
User_findByUsername(tbl, username) ==
    {i \in 1..Len(tbl) : tbl[i].username = Stored(username)}

\* Mutant of User_create: table users without UNIQUE on username
User_createNoUnique(tbl, username, password, nickname) ==
    Append(tbl, [id |-> Len(tbl) + 1, username |-> Stored(username),
                 nickname |-> Stored(nickname), password |-> password])

\* User.create: INSERT INTO users; username is UNIQUE, so that the INSERT of
\* a username the table holds is rejected (the table is returned as it is).
\* password stands for the hash: it records what the hash was made of.
User_create(tbl, username, password, nickname) ==
    IF User_findByUsername(tbl, username) # {} THEN tbl
    ELSE Append(tbl, [id |-> Len(tbl) + 1, username |-> Stored(username),
                      nickname |-> Stored(nickname), password |-> password])

\* the route's res.json(result), status "ok", or
\* res.status(400).json({message: error.message}), status the message
Reply(r, call, status) ==
    [r EXCEPT !.calls = @ \ {call}, !.replies[call.id] = status]

\* The request arrives: registerUser up to `await User.findByUsername`.
\* pool.execute throws at once when a bound parameter is undefined.
RegisterUser(username, password, nickname) ==
    /\ reg.n < MaxRegistrations
    /\ LET call == [id |-> reg.n + 1, username |-> username,
                     password |-> password, nickname |-> nickname,
                     pc |-> "findByUsername"]
       IN reg' = IF username.t = "undefined"
                 THEN [reg EXCEPT !.n = @ + 1,
                                  !.replies[call.id] = "BindUndefined"]
                 ELSE [reg EXCEPT !.n = @ + 1, !.calls = @ \cup {call},
                                  !.replies[call.id] = "pending"]
    /\ UNCHANGED <<svars, client>>

\* The message of the error registerUser throws after User.findByUsername
\* resolved, "none" if it goes on to User.create. The checks run in the
\* order of the code; bcrypt.hash rejects what is not a string.
CheckError(tbl, call) ==
    IF User_findByUsername(tbl, call.username) # {} THEN "UsernameTaken"
    ELSE IF Falsy(call.username) \/ Falsy(call.password) \/ Falsy(call.nickname)
    THEN "Empty"
    ELSE IF LengthBelow(call.username, 3) \/ LengthAbove(call.username, 20)
    THEN "UsernameLength"
    ELSE IF LengthBelow(call.password, 6) THEN "PasswordLength"
    ELSE IF LengthBelow(call.nickname, 2) \/ LengthAbove(call.nickname, 20)
    THEN "NicknameLength"
    ELSE IF call.password.t # "string" THEN "IllegalArguments"
    ELSE "none"

\* User.findByUsername resolved: the checks, then bcrypt.hash, then
\* `await User.create`
RegisterChecked(call) ==
    /\ call \in reg.calls /\ call.pc = "findByUsername"
    /\ reg' = IF CheckError(reg.users, call) # "none"
              THEN Reply(reg, call, CheckError(reg.users, call))
              ELSE [reg EXCEPT !.calls = (@ \ {call})
                                           \cup {[call EXCEPT !.pc = "create"]}]
    /\ UNCHANGED <<svars, client>>

\* The database executes the INSERT of User.create and the route replies.
RegisterCreated(call) ==
    /\ call \in reg.calls /\ call.pc = "create"
    /\ LET tbl == User_create(reg.users, call.username, call.password,
                              call.nickname)
       IN reg' = IF tbl = reg.users
                 THEN Reply(reg, call, "DuplicateEntry")
                 ELSE Reply([reg EXCEPT !.users = tbl], call, "ok")
    /\ UNCHANGED <<svars, client>>

RegisterNext ==
    \/ \E username \in Usernames, password \in Passwords, nickname \in Nicknames :
          RegisterUser(username, password, nickname)
    \/ \E call \in reg.calls : RegisterChecked(call)
    \/ \E call \in reg.calls : RegisterCreated(call)

RegisterSpec == Init /\ [][RegisterNext]_vars

(***************************************************************************)
(* Definitions the properties share                                        *)
(***************************************************************************)
\* GET /api/chatrooms: online_count of a room
OnlineCount(r) ==
    IF MapHas(chatroomUsers, r) THEN Cardinality(MapGet(chatroomUsers, r)) ELSE 0

\* A handler of socket c is suspended.
InFlight(c) == \E t \in Pending : t.conn = c

\* A joinRoom handler of socket c for room r is suspended.
JoinInFlight(c, r) ==
    \E t \in Pending : t.kind = "joinRoom" /\ t.conn = c /\ t.room = r

\* Socket c has an entry in the typing map of room r.
IsTypingIn(c, r) == MapHas(typingUsers, r) /\ MapHas(MapGet(typingUsers, r), c)

\* The sockets the step delivered an event to.
Recipients == {c \in Conns : inbox'[c] # inbox[c]}

\* The events the step delivered to socket c.
Delivered(c) == SubSeq(inbox'[c], Len(inbox[c]) + 1, Len(inbox'[c]))

\* The step accepted the client event `op` of socket c.
Accepted(op, c) == nEvents' = nEvents + 1 /\ obs'.last.op = op /\ obs'.last.conn = c

\* The step is the transport close of socket c.
Closed(c) == sockets[c] = "open" /\ sockets'[c] = "closed"

\* The step is the last one of the suspended handler t, and not a rejected
\* database call.
Finished(t) == t \in Pending /\ tasks' = Finish(t) /\ nDbErrors' = nDbErrors

\* The step is one of the suspended handler t, and not a rejected database
\* call.
Stepped(t) ==
    t \in Pending /\ CopiesIn(t, tasks') < CopiesIn(t, tasks)
                  /\ nDbErrors' = nDbErrors

\* The step delivered an event of the given type to socket c.
Got(c, type) ==
    \E i \in 1..Len(Delivered(c)) : Delivered(c)[i].type = type

\* The step delivered a typingUsers event of room r to socket c.
GotTyping(c, r) ==
    \E i \in 1..Len(Delivered(c)) :
        Delivered(c)[i].type = "typingUsers" /\ Delivered(c)[i].chatroomId = r

\* Socket c has received an event of the given type about room r.
Received(c, type, r) ==
    \E i \in 1..Len(inbox[c]) : inbox[c][i].type = type /\ inbox[c][i].room = r

\* The last event socket c has received is ev.
LastReceived(c, ev) == inbox[c] # <<>> /\ inbox[c][Len(inbox[c])] = ev

(***************************************************************************)
(* C1. In every reachable state a socket id is in a room's presence set    *)
(* chatroomUsers[room] only while that socket is connected, so that the    *)
(* online_count of a room counts connected sockets only.                   *)
(***************************************************************************)
C1_PresenceOnlyOpen ==
    \A r \in RoomIds :
        /\ \A c \in Presence(r) : sockets[c] = "open"
        /\ OnlineCount(r) = Cardinality({c \in Presence(r) : sockets[c] = "open"})

(***************************************************************************)
(* C2. Once a joinRoom(c, r) request followed by a leaveRoom(c, r) request *)
(* have both been handled completely, c is not in the presence set of r    *)
(* and exactly one userLeft for c was emitted to the room.                 *)
(***************************************************************************)
C2_JoinThenLeave ==
    \A c \in Conns, r \in RoomIds :
        (obs.jl[c][r] = "left" /\ ~JoinInFlight(c, r))
            => (c \notin Presence(r) /\ obs.nLeft[c][r] = 1)

(***************************************************************************)
(* C3. After the disconnect of socket c was handled and every suspended    *)
(* handler of c has finished, c is in the presence set of no room.         *)
(***************************************************************************)
C3_DisconnectClearsRooms ==
    \A c \in Conns :
        (sockets[c] = "closed" /\ ~InFlight(c))
            => \A r \in RoomIds : c \notin Presence(r)

(***************************************************************************)
(* C4. After the disconnect of socket c was handled, no room's typing map  *)
(* holds an entry for c.                                                   *)
(***************************************************************************)
C4_DisconnectClearsTyping ==
    \A c \in Conns :
        sockets[c] = "closed" => \A r \in RoomIds : ~IsTypingIn(c, r)

(***************************************************************************)
(* C5. The sockets that receive a published message are exactly the        *)
(* sockets in the presence set of the room when the handler resumes after  *)
(* Message.create and fans out.                                            *)
(***************************************************************************)
C5_FanOutIsPresence ==
    [][\A t \in Pending :
          MessageBroadcast(t) => Recipients = Presence(t.room)]_vars

(***************************************************************************)
(* C6. For one room, the message accepted first gets the smaller persisted *)
(* id, and a socket that receives both receives them in the order of       *)
(* acceptance.                                                             *)
(***************************************************************************)
C6_OrderPreserved ==
    /\ \A i, j \in 1..Len(messages) :
          (messages[i].chatroom_id = messages[j].chatroom_id
             /\ messages[i].seq < messages[j].seq)
          => messages[i].id < messages[j].id
    /\ \A c \in Conns : \A i, j \in 1..Len(inbox[c]) :
          (/\ inbox[c][i].type = "message"
           /\ inbox[c][j].type = "message"
           /\ inbox[c][i].chatroomId = inbox[c][j].chatroomId
           /\ messages[inbox[c][i].id].seq < messages[inbox[c][j].id].seq)
          => i < j

(***************************************************************************)
(* C7. A message event of an authenticated socket that is not in the       *)
(* presence set of the target room fails: no Message.create is started,    *)
(* nothing is broadcast and the sender gets an error event.                *)
(***************************************************************************)
C7_MessageNeedsPresence ==
    [][\A c \in Conns :
          (/\ Accepted("message", c)
           /\ socketUser[c] # NoUser
           /\ \E i \in 1..Len(obs'.last.content) : obs'.last.content[i] # " "
           /\ obs'.last.content # Undefined
           /\ c \notin Presence(obs'.last.room))
          => (/\ tasks' = tasks
              /\ messages' = messages
              /\ Recipients = {c}
              /\ Delivered(c) = <<ErrorEv("NotAMember")>>)]_vars

(***************************************************************************)
(* C8. A message event of a socket with no bound identity delivers one     *)
(* error event, to that socket only; it starts no Message.create and       *)
(* persists nothing, so that no persisted row, suspended message handler   *)
(* or broadcast message ever has a null author.                            *)
(***************************************************************************)
C8_MessageNeedsIdentity ==
    /\ [](/\ \A i \in 1..Len(messages) : messages[i].user_id # NULL
          /\ \A t \in Pending : t.kind = "message" => t.user # NoUser
          /\ \A c \in Conns : \A i \in 1..Len(inbox[c]) :
                inbox[c][i].type = "message" => inbox[c][i].userId # NULL)
    /\ [][\A c \in Conns :
             (Accepted("message", c) /\ socketUser[c] = NoUser)
             => (/\ tasks' = tasks
                 /\ messages' = messages
                 /\ Recipients = {c}
                 /\ Delivered(c) = <<ErrorEv("NotAuthenticated")>>)]_vars

\* The last event was a message event of a socket without identity, which
\* got the error.
C8_Witness ==
    /\ obs.last.op = "message"
    /\ socketUser[obs.last.conn] = NoUser
    /\ inbox[obs.last.conn] = <<ErrorEv("NotAuthenticated")>>

\* Every character of the content is a blank, or there is no content.
C9_Blank(content) ==
    content = Undefined \/ \A i \in 1..Len(content) : content[i] = " "

\* The step changed nothing a client or a later handler can see.
C9_Silent ==
    /\ Recipients = {}
    /\ UNCHANGED <<client, reg, sockets, socketUser, onlineUsers, chatroomUsers, typingUsers,
                   rooms, members, messages, tasks>>

(***************************************************************************)
(* C9 as claimed. Every message event whose content is missing, empty or   *)
(* blank is a silent no-op: nothing is persisted or broadcast, no error    *)
(* event is emitted, presence and typing state are unchanged.              *)
(***************************************************************************)
C9_BlankIsSilent ==
    [][\A c \in Conns :
          (Accepted("message", c) /\ C9_Blank(obs'.last.content)) => C9_Silent]_vars

(***************************************************************************)
(* C9 as amended. A message event of a socket with a bound identity whose  *)
(* content is missing, empty or blank is a silent no-op.                   *)
(***************************************************************************)
C9_BlankIsSilentWithIdentity ==
    [][\A c \in Conns :
          (/\ Accepted("message", c)
           /\ socketUser[c] # NoUser
           /\ C9_Blank(obs'.last.content)) => C9_Silent]_vars

\* The last event was a message event of blanks from a socket with identity.
C9_Witness ==
    /\ obs.last.op = "message"
    /\ socketUser[obs.last.conn] # NoUser
    /\ obs.last.content = <<" ">>

(***************************************************************************)
(* C10. A joinRoom event of a socket that has never authenticated delivers *)
(* one error event to that socket and nothing else: it starts no handler,  *)
(* and a socket without identity is in no presence set or adapter room,    *)
(* has no suspended joinRoom handler and has received no messageHistory    *)
(* or roomMembers, nor has any socket received a userJoined about it.      *)
(***************************************************************************)
C10_JoinNeedsIdentity ==
    /\ [](\A c \in Conns : socketUser[c] = NoUser =>
            /\ \A r \in RoomIds : c \notin Presence(r) /\ c \notin rooms[r]
            /\ \A t \in Pending : t.conn = c => t.kind = "authenticate"
            /\ \A i \in 1..Len(inbox[c]) :
                  inbox[c][i].type \notin {"messageHistory", "roomMembers"}
            /\ \A d \in Conns : \A i \in 1..Len(inbox[d]) :
                  inbox[d][i].type = "userJoined" => inbox[d][i].by # c)
    /\ [][\A c \in Conns :
             (Accepted("joinRoom", c) /\ socketUser[c] = NoUser)
             => (/\ Recipients = {c}
                 /\ Delivered(c) = <<ErrorEv("NotAuthenticated")>>
                 /\ UNCHANGED <<chatroomUsers, rooms, members, tasks>>)]_vars

\* The last event was a joinRoom event of a socket without identity, which
\* got the error.
C10_Witness ==
    /\ obs.last.op = "joinRoom"
    /\ socketUser[obs.last.conn] = NoUser
    /\ inbox[obs.last.conn] = <<ErrorEv("NotAuthenticated")>>

(***************************************************************************)
(* C11. A joinRoom handler whose Chatroom.findById returns nothing ends    *)
(* with one error event, to the caller only, and changes no presence set,  *)
(* adapter room or chatroom_members row; so a room the store does not hold *)
(* never has a present socket, a member row, a joinRoom handler past the   *)
(* lookup, or a userJoined delivered about it.                             *)
(***************************************************************************)
C11_RoomNotFound ==
    /\ [](\A r \in RoomIds \ ChatroomTable :
            /\ Presence(r) = {}
            /\ rooms[r] = {}
            /\ Chatroom_getMembers(members, r) = {}
            /\ \A t \in Pending :
                  (t.kind = "joinRoom" /\ t.room = r) => t.pc = "findById"
            /\ \A c \in Conns : ~Received(c, "userJoined", r))
    /\ [][\A t \in Pending :
             (/\ t.kind = "joinRoom" /\ t.pc = "findById"
              /\ Chatroom_findById(t.room) = NULL
              /\ Finished(t))
             => (/\ Recipients \subseteq {t.conn}
                 /\ sockets[t.conn] = "open"
                      => Delivered(t.conn) = <<ErrorEv("RoomNotFound")>>
                 /\ UNCHANGED <<socketUser, onlineUsers, chatroomUsers,
                                typingUsers, rooms, members, messages>>)]_vars

\* An authenticated socket asked to join a room the store does not hold and
\* got the error; the room has no presence.
C11_Witness ==
    \E c \in Conns :
        /\ socketUser[c] # NoUser
        /\ LastReceived(c, ErrorEv("RoomNotFound"))
        /\ \A r \in RoomIds \ ChatroomTable : Presence(r) = {}

(***************************************************************************)
(* C12. A joinRoom handler whose socket was in the room's presence set     *)
(* when the event arrived, and still is, leaves the presence map as it is  *)
(* and delivers no userJoined to any other socket.                         *)
(***************************************************************************)
C12_RejoinIdempotent ==
    [][\A t \in Pending :
          (/\ t.kind = "joinRoom" /\ t.again
           /\ t.conn \in Presence(t.room)
           /\ Stepped(t))
          => (/\ chatroomUsers' = chatroomUsers
              /\ \A d \in Conns \ {t.conn} : ~Got(d, "userJoined"))]_vars

(***************************************************************************)
(* C13. No socket ever receives a userJoined, userLeft or typingUsers      *)
(* event that its own joinRoom, leaveRoom, typing or disconnect caused.    *)
(***************************************************************************)
C13_SelfExclusion ==
    \A c \in Conns : \A i \in 1..Len(inbox[c]) :
        inbox[c][i].type \in {"userJoined", "userLeft", "typingUsers"}
            => inbox[c][i].by # c

(***************************************************************************)
(* C14. An authenticate event that arrives at a socket whose socket.user   *)
(* is already set changes neither socket.user nor onlineUsers, and its     *)
(* handler ends with the AlreadyAuthenticated error to the caller.         *)
(***************************************************************************)
C14_BindingImmutable ==
    [][\A t \in Pending :
          (t.kind = "authenticate" /\ t.again /\ Stepped(t))
          => (/\ UNCHANGED <<socketUser, onlineUsers>>
              /\ sockets[t.conn] = "open"
                   => Delivered(t.conn) = <<ErrorEv("AlreadyAuthenticated")>>)]_vars

(***************************************************************************)
(* C15. An authenticate handler whose User.findById resolves to no row     *)
(* ends with one error event, to the caller only, delivers no              *)
(* authenticated event and changes neither socket.user nor onlineUsers; so *)
(* every bound identity and every onlineUsers value is a row of the users  *)
(* table.                                                                  *)
(***************************************************************************)
C15_UnknownUser ==
    /\ [](/\ \A c \in Conns :
                socketUser[c] # NoUser => socketUser[c] = User_findById(socketUser[c].id)
          /\ \A i \in 1..Len(onlineUsers) :
                /\ onlineUsers[i].val # NoUser
                /\ onlineUsers[i].val = User_findById(onlineUsers[i].val.id))
    /\ [][\A t \in Pending :
             (/\ t.kind = "authenticate"
              /\ User_findById(t.uid) = NoUser
              /\ Finished(t))
             => (/\ Recipients \subseteq {t.conn}
                 /\ sockets[t.conn] = "open"
                      => Delivered(t.conn) = <<ErrorEv("UnknownUser")>>
                 /\ ~Got(t.conn, "authenticated")
                 /\ UNCHANGED <<socketUser, onlineUsers>>)]_vars

\* A socket asked to authenticate as a user the table does not hold and got
\* the error; it has no identity and no entry in onlineUsers.
C15_Witness ==
    \E c \in Conns :
        /\ LastReceived(c, ErrorEv("UnknownUser"))
        /\ socketUser[c] = NoUser
        /\ ~MapHas(onlineUsers, c)

(***************************************************************************)
(* C16. A typing event for a room whose presence set does not hold the     *)
(* socket inserts no entry for the socket into the room's typing map and   *)
(* delivers no typingUsers event to any socket.                            *)
(***************************************************************************)
C16_TypingNeedsPresence ==
    [][\A c \in Conns, r \in RoomIds :
          (Accepted("typing", c) /\ obs'.last.room = r /\ c \notin Presence(r))
          => (/\ IsTypingIn(c, r)' => IsTypingIn(c, r)
              /\ \A d \in Conns : ~Got(d, "typingUsers"))]_vars

(***************************************************************************)
(* C17. A typing event with isTyping = true of a socket that already has   *)
(* an entry in the room's typing map delivers no typingUsers event to the  *)
(* other sockets.                                                          *)
(***************************************************************************)
C17_TypingOnEdge ==
    [][\A c \in Conns, r \in RoomIds :
          (/\ Accepted("typing", c) /\ obs'.last.room = r
           /\ obs'.last.isTyping
           /\ IsTypingIn(c, r))
          => \A d \in Conns \ {c} : ~GotTyping(d, r)]_vars

(***************************************************************************)
(* C18. A typing event with isTyping = false, and a disconnect, of a       *)
(* socket that has no entry in a room's typing map deliver no typingUsers  *)
(* event of that room to the other sockets.                                *)
(***************************************************************************)
C18_RemovalOnEdge ==
    [][\A c \in Conns, r \in RoomIds :
          (/\ \/ /\ Accepted("typing", c) /\ obs'.last.room = r
                 /\ ~obs'.last.isTyping
              \/ Closed(c)
           /\ ~IsTypingIn(c, r))
          => \A d \in Conns \ {c} : ~GotTyping(d, r)]_vars

(***************************************************************************)
(* C19. The typing entry of a socket that is present in the room is        *)
(* eventually removed from the room's typing map, whatever the clients do  *)
(* or do not send afterwards.                                              *)
(***************************************************************************)
C19_TypingExpires ==
    \A c \in Conns, r \in RoomIds :
        (IsTypingIn(c, r) /\ c \in Presence(r)) ~> ~IsTypingIn(c, r)

(***************************************************************************)
(* C20. A leaveRoom event of a socket that is in the room's presence set   *)
(* leaves no entry of that socket in the room's typing map.                *)
(***************************************************************************)
C20_LeaveClearsTyping ==
    [][\A c \in Conns, r \in RoomIds :
          (Accepted("leaveRoom", c) /\ obs'.last.room = r /\ c \in Presence(r))
          => ~IsTypingIn(c, r)']_vars

(***************************************************************************)
(* C21. A leaveRoom event for a room whose presence set does not hold the  *)
(* socket leaves the presence map as it is and delivers no userLeft to any *)
(* socket.                                                                 *)
(***************************************************************************)
C21_LeaveAbsentIsNoOp ==
    [][\A c \in Conns, r \in RoomIds :
          (Accepted("leaveRoom", c) /\ obs'.last.room = r /\ c \notin Presence(r))
          => (/\ chatroomUsers' = chatroomUsers
              /\ \A d \in Conns : ~Got(d, "userLeft"))]_vars

(***************************************************************************)
(* C22. In every reachable state, the user bound to a socket that is in a  *)
(* room's presence set has a row in chatroom_members for that room.        *)
(***************************************************************************)
C22_PresentIsMember ==
    \A c \in Conns, r \in RoomIds :
        (c \in Presence(r) /\ socketUser[c] # NoUser)
            => socketUser[c].id \in Chatroom_getMembers(members, r)

\* The step ran the suspended handler t up to an await, to a return after an
\* error, or into its catch block: anything but its successful end.
StoppedShort(t) ==
    /\ t \in Pending
    /\ CopiesIn(t, tasks') < CopiesIn(t, tasks)
    /\ ~(t.pc \in {"getMembers", "created"} /\ nDbErrors' = nDbErrors)
    /\ ~(t.kind = "authenticate" /\ Got(t.conn, "authenticated"))

\* The sockets other than c are in the same presence sets after the step.
OthersPresenceUnchanged(c) ==
    \A d \in Conns \ {c}, r \in RoomIds : (d \in Presence(r))' <=> d \in Presence(r)

(***************************************************************************)
(* C23. A step that delivers an error event delivers that one event, to    *)
(* the socket whose event failed, and changes no presence set, typing map  *)
(* or adapter room; and no step of a handler short of its successful end   *)
(* delivers anything to another socket, or changes the typing maps or the  *)
(* presence of another socket; nor does a typing or leaveRoom event of a   *)
(* socket without identity.                                                *)
(***************************************************************************)
C23_ErrorsStayLocal ==
    /\ [][\A c \in Conns :
             Got(c, "error")
             => (/\ Recipients = {c}
                 /\ Len(Delivered(c)) = 1
                 /\ (Accepted("joinRoom", c) \/ Accepted("message", c)
                       \/ \E t \in Pending : t.conn = c /\ StoppedShort(t))
                 /\ UNCHANGED <<chatroomUsers, typingUsers, rooms>>)]_vars
    /\ [][\A t \in Pending :
             StoppedShort(t)
             => (/\ Recipients \subseteq {t.conn}
                 /\ OthersPresenceUnchanged(t.conn)
                 /\ UNCHANGED typingUsers)]_vars
    /\ [][\A c \in Conns :
             ((Accepted("typing", c) \/ Accepted("leaveRoom", c))
                /\ socketUser[c] = NoUser)
             => (/\ Recipients \subseteq {c}
                 /\ UNCHANGED <<chatroomUsers, typingUsers, rooms>>)]_vars

\* A socket has received an error event while another socket is connected and
\* present in a room; that socket has received no error.
C23_Witness ==
    \E c \in Conns, d \in Conns :
        /\ c # d
        /\ \E i \in 1..Len(inbox[c]) : inbox[c][i].type = "error"
        /\ sockets[d] = "open"
        /\ d \in Presence("r1")
        /\ \A i \in 1..Len(inbox[d]) : inbox[d][i].type # "error"

(***************************************************************************)
(* C24. A typing or leaveRoom event of a socket without identity is        *)
(* answered with an error event to that socket.                            *)
(***************************************************************************)
C24_NoSilentFailure ==
    [][\A c \in Conns :
          ((Accepted("typing", c) \/ Accepted("leaveRoom", c))
             /\ socketUser[c] = NoUser)
          => Got(c, "error")]_vars

(***************************************************************************)
(* C25. The disconnect of a socket without identity delivers nothing and   *)
(* changes no presence set, typing map, adapter room or onlineUsers entry; *)
(* it leaves nothing behind either, because a socket without identity is   *)
(* in no presence set and has no entry in a typing map or in onlineUsers.  *)
(***************************************************************************)
C25_UnboundDisconnect ==
    /\ [](\A c \in Conns :
            socketUser[c] = NoUser
            => (/\ \A r \in RoomIds : c \notin Presence(r) /\ ~IsTypingIn(c, r)
                /\ ~MapHas(onlineUsers, c)))
    /\ [][\A c \in Conns :
             (Closed(c) /\ socketUser[c] = NoUser)
             => (/\ Recipients = {}
                 /\ UNCHANGED <<socketUser, onlineUsers, chatroomUsers,
                                typingUsers, rooms, members, messages, tasks>>)]_vars

\* A socket without identity has disconnected while another socket was
\* connected and present in a room; that socket was told of no departure.
C25_Witness ==
    \E c \in Conns, d \in Conns :
        /\ sockets[c] = "closed" /\ socketUser[c] = NoUser /\ ~InFlight(c)
        /\ sockets[d] = "open" /\ d \in Presence("r1")
        /\ ~Received(d, "userLeft", "r1")

\* The message event the handler t broadcasts.
MessageEv(t) ==
    [type |-> "message", id |-> t.msgId, userId |-> t.user.id,
     nickname |-> t.user.nickname, avatar |-> t.user.avatar,
     content |-> t.content, chatroomId |-> t.room, by |-> t.conn]

(***************************************************************************)
(* C26. A disconnect leaves the suspended handlers and the messages table  *)
(* as they are, and the INSERT of a suspended message handler can still    *)
(* execute; when the handler of a socket that has disconnected resumes     *)
(* after Message.create, the row is in the table and the message is        *)
(* delivered to exactly the connected sockets of the room's presence set,  *)
(* the sender not among them.                                              *)
(***************************************************************************)
C26_SenderGone ==
    /\ [](\A t \in Pending :
            (t.kind = "message" /\ t.pc = "create" /\ Chatroom_findById(t.room) # NULL)
            => ENABLED MessageInsert(t))
    /\ [][\A c \in Conns : Closed(c) => UNCHANGED <<tasks, messages>>]_vars
    /\ [][\A t \in Pending :
             (/\ t.kind = "message" /\ t.pc = "created"
              /\ sockets[t.conn] = "closed"
              /\ Finished(t))
             => (/\ t.msgId \in 1..Len(messages)
                 /\ messages[t.msgId].content = t.content
                 /\ messages[t.msgId].chatroom_id = t.room
                 /\ Recipients = {d \in Presence(t.room) : sockets[d] = "open"}
                 /\ t.conn \notin Recipients
                 /\ \A d \in Recipients : Delivered(d) = <<MessageEv(t)>>)]_vars

\* Socket c sent a message to room r1 while present there and disconnected
\* before the fan-out: the other socket has received the message, c has not.
C26_Witness ==
    \E c \in Conns, d \in Conns :
        /\ c # d
        /\ sockets[c] = "closed" /\ obs.jl[c]["r1"] = "join"
        /\ \E i \in 1..Len(inbox[d]) :
              /\ inbox[d][i].type = "message"
              /\ inbox[d][i].by = c /\ inbox[d][i].chatroomId = "r1"
        /\ \A i \in 1..Len(inbox[c]) : inbox[c][i].type # "message"
        /\ \E i \in 1..Len(messages) : messages[i].chatroom_id = "r1"

\* The handler the step started.
Started(t) == CopiesIn(t, tasks') > CopiesIn(t, tasks)

(***************************************************************************)
(* C27. A message event that starts a handler hands it the identity bound  *)
(* to the socket at that moment, the room id and the trimmed content; the  *)
(* row Message.create inserts holds that user id, room id and content; and *)
(* the fan-out delivers to every connected socket of the room one message  *)
(* event with the id of that row, that content and room id, and the id,    *)
(* nickname and avatar of that identity. So every message event a socket   *)
(* has received agrees with the persisted row of its id.                   *)
(***************************************************************************)
C27_MessageStamping ==
    /\ [][\A c \in Conns :
             (Accepted("message", c) /\ tasks' # tasks)
             => \E t \in BagToSet(tasks') :
                  /\ Started(t) /\ t.kind = "message" /\ t.conn = c
                  /\ t.user = socketUser[c] /\ t.user # NoUser
                  /\ t.room = obs'.last.room
                  /\ t.content = Trim(obs'.last.content)]_vars
    /\ [](\A t \in Pending :
            (t.kind = "message" /\ t.pc = "created")
            => (/\ t.msgId \in 1..Len(messages)
                /\ messages[t.msgId].id = t.msgId
                /\ messages[t.msgId].user_id = t.user.id
                /\ messages[t.msgId].chatroom_id = t.room
                /\ messages[t.msgId].content = t.content))
    /\ [][\A t \in Pending :
             (t.kind = "message" /\ t.pc = "created" /\ Finished(t))
             => (/\ Recipients = {d \in Presence(t.room) : sockets[d] = "open"}
                 /\ \A d \in Recipients : Delivered(d) = <<MessageEv(t)>>)]_vars
    /\ [](\A c \in Conns : \A i \in 1..Len(inbox[c]) :
            inbox[c][i].type = "message"
            => (/\ inbox[c][i].id \in 1..Len(messages)
                /\ messages[inbox[c][i].id].content = inbox[c][i].content
                /\ messages[inbox[c][i].id].chatroom_id = inbox[c][i].chatroomId
                /\ messages[inbox[c][i].id].user_id = inbox[c][i].userId
                /\ inbox[c][i].content = Trim(inbox[c][i].content)
                /\ inbox[c][i].nickname = User_findById(inbox[c][i].userId).nickname
                /\ inbox[c][i].avatar = User_findById(inbox[c][i].userId).avatar))

\* Socket x, present in room r1, sent " a"; socket y, present in r1, has
\* received the message with the content "a" and the identity of x.
C27_Witness ==
    \E x \in Conns, y \in Conns :
        /\ x # y
        /\ y \in Presence("r1") /\ x \in Presence("r1")
        /\ inbox[y] # <<>>
        /\ LET e == inbox[y][Len(inbox[y])] IN
             /\ e.type = "message" /\ e.by = x /\ e.chatroomId = "r1"
             /\ e.content = <<"a">>
             /\ e.userId = socketUser[x].id
             /\ e.nickname = socketUser[x].nickname

(***************************************************************************)
(* C28. No socket has received two message events with the same persisted  *)
(* id, and no two handlers hold the same persisted id.                     *)
(***************************************************************************)
C28_AtMostOnce ==
    /\ \A c \in Conns : \A i, j \in 1..Len(inbox[c]) :
          (/\ i # j
           /\ inbox[c][i].type = "message"
           /\ inbox[c][j].type = "message")
          => inbox[c][i].id # inbox[c][j].id
    /\ \A t \in Pending :
          (t.kind = "message" /\ t.pc = "created") => CopiesIn(t, tasks) = 1
    /\ \A i \in 1..Len(messages) : messages[i].id = i

\* A socket that joined room r1 a second time while present has afterwards
\* received a message of r1, once.
C28_Witness ==
    \E c \in Conns :
        \E i, j, k \in 1..Len(inbox[c]) :
            /\ i < j /\ j < k
            /\ inbox[c][i].type = "roomMembers" /\ inbox[c][i].room = "r1"
            /\ inbox[c][j].type = "roomMembers" /\ inbox[c][j].room = "r1"
            /\ inbox[c][k].type = "message" /\ inbox[c][k].chatroomId = "r1"
            /\ \A n \in i..j : inbox[c][n].type # "userLeft"
            /\ obs.jl[c]["r1"] = "join" /\ obs.nLeft[c]["r1"] = 0

(***************************************************************************)
(* C29. Every messageHistory event a socket has received lists messages of *)
(* one room in ascending order of creation, that is of persisted id, and   *)
(* at most 50 of them.                                                     *)
(***************************************************************************)
C29_HistoryAscending ==
    \A c \in Conns : \A i \in 1..Len(inbox[c]) :
        inbox[c][i].type = "messageHistory"
        => LET h == inbox[c][i].messages IN
             /\ Len(h) <= HistoryLimit
             /\ \A a \in 1..Len(h) : h[a].chatroom_id = inbox[c][i].room
             /\ \A a, b \in 1..Len(h) : a < b => h[a].id < h[b].id

\* The sockets with an entry in the typing map of room r, in the order of the
\* map.
TypingKeys(r) ==
    IF MapHas(typingUsers, r)
    THEN [i \in 1..Len(MapGet(typingUsers, r)) |-> MapGet(typingUsers, r)[i].key]
    ELSE <<>>

\* The typing list of room r: the values of the map, in the order of the map.
TypingList(r) ==
    IF MapHas(typingUsers, r) THEN MapValues(MapGet(typingUsers, r)) ELSE <<>>

(***************************************************************************)
(* C30. A typing event with isTyping = true of a socket that has an entry  *)
(* in the room's typing map leaves the order of the map as it is; of a     *)
(* socket that has none, it puts the socket last; a typing event with      *)
(* isTyping = false and a disconnect take the socket out and keep the      *)
(* order of the others. The list of the typingUsers event a typing event   *)
(* delivers is the list of the map's values in that order, with the        *)
(* identity of the sender at the sender's place.                           *)
(***************************************************************************)
C30_TypingOrder ==
    /\ [](\A r \in RoomIds : \A i, j \in 1..Len(TypingKeys(r)) :
            i # j => TypingKeys(r)[i] # TypingKeys(r)[j])
    /\ [][\A c \in Conns, r \in RoomIds :
             (Accepted("typing", c) /\ obs'.last.room = r /\ socketUser[c] # NoUser)
             => LET before == TypingKeys(r)
                    after == TypingKeys(r)'
                    list == TypingList(r)'
                IN /\ (obs'.last.isTyping /\ IsTypingIn(c, r)) => after = before
                   /\ (obs'.last.isTyping /\ ~IsTypingIn(c, r))
                        => after = Append(before, c)
                   /\ ~obs'.last.isTyping
                        => after = SelectSeq(before, LAMBDA k : k # c)
                   /\ \A i \in 1..Len(after) :
                         after[i] = c
                         => list[i] = [id |-> socketUser[c].id,
                                       nickname |-> socketUser[c].nickname]
                   /\ \A d \in Recipients :
                         Delivered(d) = <<[type |-> "typingUsers", chatroomId |-> r,
                                           by |-> c, typingUsers |-> list]>>]_vars
    /\ [][\A c \in Conns, r \in RoomIds :
             Closed(c)
             => TypingKeys(r)' \in {TypingKeys(r),
                                    SelectSeq(TypingKeys(r), LAMBDA k : k # c)}]_vars

\* Socket c started typing in room r1, then socket d, then c sent typing =
\* true again: c is still first, and d has received the list in that order.
C30_Witness ==
    \E c \in Conns, d \in Conns :
        /\ c # d
        /\ TypingKeys("r1") = <<c, d>>
        /\ obs.last.op = "typing" /\ obs.last.conn = c /\ obs.last.room = "r1"
        /\ obs.last.isTyping
        /\ LastReceived(d, [type |-> "typingUsers", chatroomId |-> "r1", by |-> c,
                            typingUsers |-> TypingList("r1")])
        /\ TypingList("r1")[1].id = socketUser[c].id

\* The keys of a Map, as a set.
MapKeys(m) == {m[i].key : i \in 1..Len(m)}

(***************************************************************************)
(* C31. In every reachable state the keys of onlineUsers are exactly the   *)
(* sockets that are connected and have a bound identity; no closed socket  *)
(* has an entry.                                                           *)
(***************************************************************************)
C31_OnlineIsOpenAndBound ==
    MapKeys(onlineUsers) = {c \in Conns : sockets[c] = "open" /\ socketUser[c] # NoUser}

\* The place in socket c's inbox of the last messageHistory of room r it has
\* received, 0 if it has received none.
LastHistory(c, r) ==
    LET is == {i \in 1..Len(inbox[c]) :
                 inbox[c][i].type = "messageHistory" /\ inbox[c][i].room = r}
    IN IF is = {} THEN 0 ELSE CHOOSE i \in is : \A j \in is : j <= i

\* The messageHistory at place i of socket c's inbox contains the row with id k.
InHistory(c, i, k) ==
    \E a \in 1..Len(inbox[c][i].messages) : inbox[c][i].messages[a].id = k

\* The places in socket c's inbox of the live message events with id k.
LiveAt(c, k) ==
    {j \in 1..Len(inbox[c]) : inbox[c][j].type = "message" /\ inbox[c][j].id = k}

\* The handler that persisted row k has not fanned it out yet.
FanOutPending(k) ==
    \E t \in Pending : t.kind = "message" /\ t.pc = "created" /\ t.msgId = k

\* A joinRoom handler of socket c for room r is suspended before its
\* messageHistory emit.
JoinBeforeHistory(c, r) ==
    \E t \in Pending :
        /\ t.kind = "joinRoom" /\ t.conn = c /\ t.room = r
        /\ t.pc \in {"findById", "addMember", "getByChatroom"}

\* Socket c has joined room r and stayed: it is connected, its last request
\* about r was a joinRoom, it has received a messageHistory of r since, and
\* no further joinRoom of it for r is on its way to the history.
JoinedAndStayed(c, r) ==
    /\ sockets[c] = "open"
    /\ obs.jl[c][r] = "join"
    /\ obs.hist[c][r]
    /\ LastHistory(c, r) > 0
    /\ ~JoinBeforeHistory(c, r)

(***************************************************************************)
(* C32. A socket that joined room r and stayed misses no message: every    *)
(* row persisted in r (the room holding at most 50) is contained in the    *)
(* last messageHistory of r the socket received, or was delivered to it as *)
(* a live message event, or is still to be fanned out by its handler.      *)
(***************************************************************************)
C32_NoMessageMissed ==
    \A c \in Conns, r \in RoomIds :
        JoinedAndStayed(c, r)
        => \A k \in 1..Len(messages) :
              (messages[k].chatroom_id = r /\ Len(messages) <= HistoryLimit)
              => \/ InHistory(c, LastHistory(c, r), k)
                 \/ LiveAt(c, k) # {}
                 \/ FanOutPending(k)

\* A socket received an empty messageHistory of r1 and then, live, the message
\* that was persisted after the history was read.
C32_Witness ==
    \E c \in Conns :
        /\ JoinedAndStayed(c, "r1")
        /\ Len(messages) = 1 /\ messages[1].chatroom_id = "r1"
        /\ ~InHistory(c, LastHistory(c, "r1"), 1)
        /\ \E j \in LiveAt(c, 1) : j > LastHistory(c, "r1")
        /\ ~FanOutPending(1)

(***************************************************************************)
(* C33. No socket receives a message on both channels: a row contained in  *)
(* a messageHistory the socket received is not delivered to that socket as *)
(* a live message event after that messageHistory.                         *)
(***************************************************************************)
C33_NoDuplicateAcrossChannels ==
    \A c \in Conns : \A i \in 1..Len(inbox[c]) :
        inbox[c][i].type = "messageHistory"
        => \A k \in 1..Len(messages) :
              InHistory(c, i, k) => \A j \in LiveAt(c, k) : j < i

(***************************************************************************)
(* C34. A joinRoom that ends in the catch block leaves the presence map as *)
(* it was before the request: when the socket was not present in the room *)
(* as the request arrived, has completed no join of that room before and   *)
(* has no other joinRoom for it suspended, it is not present in the room   *)
(* after the error.                                                        *)
(***************************************************************************)
C34_FailedJoinRollsBack ==
    [][\A t \in Pending :
          (/\ t.kind = "joinRoom"
           /\ DbError(t)
           /\ ~t.again
           /\ ~Received(t.conn, "roomMembers", t.room)
           /\ \A u \in Pending :
                 (u.kind = "joinRoom" /\ u.conn = t.conn /\ u.room = t.room) => u = t
           /\ CopiesIn(t, tasks) = 1)
          => t.conn \notin Presence(t.room)']_vars

\* The entry of socket d in the typing map of room r, NoUser if it has none.
TypingEntry(d, r) ==
    IF IsTypingIn(d, r) THEN MapGet(MapGet(typingUsers, r), d)
    ELSE [id |-> NULL, nickname |-> <<>>]

\* What the maps and the adapter hold about socket d.
EntriesOf(d) ==
    [presence |-> {r \in RoomIds : d \in Presence(r)},
     rooms |-> {r \in RoomIds : d \in rooms[r]},
     typing |-> [r \in RoomIds |-> TypingEntry(d, r)],
     online |-> IF MapHas(onlineUsers, d) THEN MapGet(onlineUsers, d) ELSE NoUser]

(***************************************************************************)
(* C35. The disconnect or the leaveRoom of socket c leaves what the maps   *)
(* and the adapter hold about every other socket as it is, also when the   *)
(* other socket is bound to the same user; and a message that is fanned    *)
(* out reaches every connected socket in the presence set of its room.     *)
(***************************************************************************)
C35_OthersUntouched ==
    /\ [][\A c \in Conns :
            (Closed(c) \/ Accepted("leaveRoom", c))
            => \A d \in Conns \ {c} : EntriesOf(d)' = EntriesOf(d)]_vars
    /\ [][\A t \in Pending :
            MessageBroadcast(t)
            => \A d \in Presence(t.room) :
                  sockets[d] = "open" => Delivered(d) = <<MessageEv(t)>>]_vars

\* Two sockets of one user were present in r1; one of them left or closed,
\* the other is still present and the last event it received is a message of
\* r1, which was fanned out after that.
C35_Witness ==
    \E c, d \in Conns :
        /\ c # d
        /\ socketUser[c] # NoUser /\ socketUser[c].id = socketUser[d].id
        /\ obs.nLeft[c]["r1"] > 0
        /\ c \notin Presence("r1") /\ d \in Presence("r1")
        /\ sockets[d] = "open"
        /\ inbox[d] # <<>>
        /\ inbox[d][Len(inbox[d])].type = "message"
        /\ \E i \in 1..(Len(inbox[d]) - 1) :
              inbox[d][i].type = "userLeft" /\ inbox[d][i].by = c

\* The isTyping of the last typing event the page emitted for room r, as
\* "true" or "false"; "none" if it has emitted none.
LastTyping(r) ==
    LET is == {i \in 1..Len(client.emitted) :
                 client.emitted[i].type = "typing" /\ client.emitted[i].room = r}
    IN IF is = {} THEN "none"
       ELSE IF client.emitted[CHOOSE i \in is : \A j \in is : j <= i].isTyping
            THEN "true" ELSE "false"

(***************************************************************************)
(* C36. In the page, whenever the last typing event emitted for a room     *)
(* has isTyping = true, a typing event with isTyping = false is emitted    *)
(* for that room later.                                                    *)
(***************************************************************************)
C36_TypingIsStopped ==
    \A r \in RoomIds : (LastTyping(r) = "true") ~> (LastTyping(r) = "false")

\* The step is an edit of the message box.
Typed == \E v \in Values : Input(v)

(***************************************************************************)
(* C37. In the page, while a room is current, isTyping is true only if the *)
(* last typing event emitted for that room has isTyping = true; so an edit *)
(* of the message box, when the last typing event for the current room is  *)
(* not one with isTyping = true, emits typing with isTyping = true for the *)
(* current room.                                                           *)
(***************************************************************************)
C37_FlagMatchesEmits ==
    /\ [](client.isTyping /\ client.currentRoom # NULL
             => LastTyping(client.currentRoom) = "true")
    /\ [][(Typed /\ client.currentRoom # NULL
                 /\ LastTyping(client.currentRoom) # "true")
            => (/\ Len(client'.emitted) = Len(client.emitted) + 1
                /\ client'.emitted[Len(client'.emitted)] =
                      [type |-> "typing", room |-> client.currentRoom,
                       isTyping |-> TRUE])]_vars

\* The requests POST /api/register answered with success, and with an error.
Registered == {i \in 1..MaxRegistrations : reg.replies[i] = "ok"}
Refused == {i \in 1..MaxRegistrations : reg.replies[i] \notin {"none", "pending", "ok"}}

(***************************************************************************)
(* C38. No two rows of table users have the same username, and every       *)
(* success answered stands for a row of its own; a registerUser call that  *)
(* passed the findByUsername check and reaches User.create when the table  *)
(* holds its username is answered with an error and creates nothing.       *)
(***************************************************************************)
C38_UsernameUnique ==
    /\ [](\A i, j \in 1..Len(reg.users) :
             i # j => reg.users[i].username # reg.users[j].username)
    /\ [](Cardinality(Registered) = Len(reg.users))
    /\ [][\A call \in reg.calls :
             (/\ RegisterCreated(call)
              /\ User_findByUsername(reg.users, call.username) # {})
             => (reg'.users = reg.users /\ call.id \in Refused')]_vars

\* Two calls with one username both passed the check; one was answered with
\* success, the other with the error of the INSERT.
C38_Witness ==
    /\ Len(reg.users) = 1
    /\ \E i, j \in 1..MaxRegistrations :
          reg.replies[i] = "ok" /\ reg.replies[j] = "DuplicateEntry"

\* The data of a call are what registerUser asks for: all three present,
\* a username of 3 to 20 characters, a password of at least 6 and a nickname
\* of 2 to 20, counted on what the account is created with.
ValidData(username, password, nickname) ==
    /\ ~Falsy(username) /\ ~Falsy(password) /\ ~Falsy(nickname)
    /\ Len(Stored(username)) \in 3..20
    /\ Len(Stored(password)) >= 6
    /\ Len(Stored(nickname)) \in 2..20

(***************************************************************************)
(* C39. Every row of table users has a username of 3 to 20 characters, a   *)
(* password of at least 6 and a nickname of 2 to 20; and a registerUser    *)
(* call whose username is taken or whose data are not valid is answered    *)
(* with an error after its checks and never reaches User.create.           *)
(***************************************************************************)
C39_OnlyValidUsers ==
    /\ [](\A i \in 1..Len(reg.users) :
             ValidData([t |-> "string", s |-> reg.users[i].username],
                       reg.users[i].password,
                       [t |-> "string", s |-> reg.users[i].nickname]))
    /\ [][\A call \in reg.calls :
             (/\ RegisterChecked(call)
              /\ \/ User_findByUsername(reg.users, call.username) # {}
                 \/ ~ValidData(call.username, call.password, call.nickname))
             => (call.id \in Refused' /\ reg'.users = reg.users)]_vars

====
